---- MODULE Spec2Model ----
(***************************************************************************)
(* Model of the price cache, the synchronization coordinator               *)
(* (backend/data_engine/coordinator.py), the analyze / forecast request    *)
(* paths (backend/app/api/v1/endpoints) and the forecasting models         *)
(* (backend/data_engine/forecasting).                                      *)
(*                                                                         *)
(* Prices are integers in units of 1e-5 (one tenth of the 4-decimal tick   *)
(* the forecasters round to); timestamps are integers in days.             *)
(***************************************************************************)
EXTENDS Integers, Sequences, FiniteSets, Bags, TLC

\* ------------------------------------------------------------------ bounds

\* Periods an upstream history may hold (timestamps 1..MaxTs).
MaxTs == 2
\* sync_asset calls started in one behaviour.
MaxSyncs == 2

\* Longest short training series, widest smoothing span, longest horizon and
\* most fit calls on one model instance.
MaxLen == 3
MaxSpan == 2
MaxPeriods == 2
MaxFits == 2
\* Requests one caller sends in one behaviour.
MaxRequests == 2
\* Requests in flight at once where the thread pools are concerned.
MaxInFlight == 3

\* ThreadPoolExecutor(max_workers=2).
MaxWorkers == 2

\* LSTMForecastor's default random_state.
RandomState == 42

\* ProphetForecaster.fit's minimum number of samples.
ProphetMinSamples == 10

\* INTERVAL_CONFIG[...]["min_samples"] of the weekly and the monthly interval.
WeeklyMinSamples == 52
MonthlyMinSamples == 24

\* Defaults of AnalyzeRequest: periods, lookback_window, confidence_level
\* (in percent).
DefaultPeriods == 4
DefaultLookback == 20
DefaultConfidence == 95

\* Series lengths the interval check is applied to: 0..MaxRows.
MaxRows == 53

\* The largest `periods` the request schemas accept.
MaxRequestPeriods == 52

\* ------------------------------------------------------------ input domains

\* Ticker symbols as the store holds them, and as a client may type them;
\* a string is the sequence of its characters.
Symbols == {<<"A", "A", "P", "L">>, <<"B", "T", "C">>}
RawSymbols == {<<"A", "A", "P", "L">>, <<" ", "a", "a", "p", "l">>, <<"b", "t", "c", " ">>}
AssetTypes == {"stock", "crypto"}
Intervals == {"1wk", "1mo"}
Callers == {1, 2}
Timestamps == 1..MaxTs
\* The close prices an upstream row may carry.
Closes == {1, 2}
\* Scaled prices in tenths (MinMaxScaler maps onto 0..1) and the scaled values
\* a network may predict.
ScaledValues == {0, 5, 10}
ScaledPreds == {3, 12}

\* An upstream history: the rows of the provider's DataFrame, one per
\* timestamp, as a function timestamp -> close. The provider answers with
\* the full history of the symbol, the periods 1..n it has so far (none for
\* a symbol it does not know), and may revise any close between two calls.
Histories == UNION {[1..n -> Closes] : n \in 0..MaxTs}

NoHistory == <<>>

\* Model kinds of the request schema, smoothing spans / lookback windows,
\* confidence levels in percent and horizons for the forecasting models.
ModelKinds == {"base", "lstm", "prophet"}
Spans == 0..MaxSpan
Confidences == {50, 80, 95, 99}
Horizons == 1..MaxPeriods
\* Days between two samples of a weekly and of a monthly series.
StepDays == {7, 30}
\* Values a trained network may predict, stds of its validation residuals
\* and half-widths of Prophet's band, in units of 1e-5.
PredValues == {1005, 1015}
ValStds == {0, 4}
BandWidths == {0, 12}
\* Request routes and the lookback windows a request may ask for.
Routes == {"analyze", "forecast"}
Lookbacks == {5, 60}

\* ------------------------------------------------------------------- state

VARIABLES
    assets,        \* table assets: set of rows
    prices,        \* table historical_prices: bag of rows (the generated row id, which no code reads, left out)
    nextAssetId,   \* next id the store generates for an assets row
    sync,          \* one sync_asset call frame per caller
    nSyncs,        \* sync_asset calls started so far; also the time in ticks
    merged,        \* history: per asset id, timestamp -> close of the latest upsert holding it
    prev,          \* history: the latest finished sync_asset call, when it returned a count
                   \* and no later call has fetched yet
    libs,          \* which optional packages import: [tensorflow, prophet]
    model,         \* a forecasting model instance
    out,           \* the latest call on the instance and what it gave
    hist,          \* history: the fit calls made on the instance
    req,           \* one request frame per caller
    check,         \* one application of the interval minimum check: input and outcome
    mapped,        \* two failures and the statuses the endpoints answer them with
    label,         \* one application of the horizon label: input and text
    pools,         \* per executor: the work queue and the units its workers run
    calls,         \* per request in flight: where its handler and its unit of work are
    units,         \* per pool worker: the _run_model unit it runs and the model it built
    globals,       \* process-wide state: the random generators and the objects created
    roll           \* one application of the LSTM model's iterative prediction

syncVars == <<assets, prices, nextAssetId, sync, nSyncs, merged, prev>>
modelVars == <<libs, model, out, hist>>
\* The states of the function applications and of the thread pools.
poolVars == <<pools, calls>>
shareVars == <<units, globals>>
auxVars == <<mapped, label, poolVars, shareVars, roll>>
vars == <<assets, prices, nextAssetId, sync, nSyncs, merged, prev, libs, model, out, hist,
          req, check, auxVars>>

storeVars == <<assets, prices, nextAssetId>>

\* datetime.utcnow() and the store's now(): time advances with every call.
Now == nSyncs

\* --------------------------------------------------------------- the store

\* historical_prices rows of one asset.
RowsOf(aid) == {r \in BagToSet(prices) : r.asset_id = aid}

\* A lookup that only sees assets that already have observations.
SelectAssetWithPrices(symbol) == {a \in assets : a.symbol = symbol /\ RowsOf(a.id) # {}}

\* db.table("assets").select("id").eq("symbol", symbol).limit(1)
SelectAssetBySymbol(symbol) == {a \in assets : a.symbol = symbol}

\* The id of the row .limit(1) returns (res.data[0]["id"]).
FirstAssetId(symbol) ==
    LET ids == {a.id : a \in SelectAssetBySymbol(symbol)}
    IN CHOOSE i \in ids : \A j \in ids : i <= j

\* The row _get_or_create_asset inserts; created_at is the store's default.
NewAssetRow(id, symbol, asset_type, now) ==
    [id |-> id, symbol |-> symbol, asset_type |-> asset_type, name |-> symbol,
     currency |-> "USD", last_updated |-> 0, created_at |-> now]

\* The unique constraint on assets.symbol: an insert of a symbol that is
\* already there is rejected.
AssetInsertAccepted(symbol) == SelectAssetBySymbol(symbol) = {}

\* Step 3 of sync_asset: the records built from the DataFrame.
Transform(aid, df) ==
    {[asset_id |-> aid, timestamp |-> t, close_price |-> df[t]] : t \in DOMAIN df}

\* A plain insert of every record (what upsert would be without on_conflict
\* resolution): each record becomes a new row.
InsertAll(rows, records) == rows (+) SetToBag(records)

\* The stored rows a record's key (asset_id, timestamp) conflicts with.
Conflicting(rows, rec) ==
    {r \in BagToSet(rows) : r.asset_id = rec.asset_id /\ r.timestamp = rec.timestamp}

\* Upsert gone wrong: the conflict target dropped, every record inserted.
UpsertAsInsert(rows, records) == InsertAll(rows, records)

\* Upsert gone wrong: ignore_duplicates, a conflicting record is skipped.
UpsertIgnoreDuplicates(rows, records) ==
    InsertAll(rows, {rec \in records : Conflicting(rows, rec) = {}})

\* upsert(records, on_conflict="asset_id,timestamp"): a record whose key is
\* already stored overwrites that row, any other record is inserted as a new
\* row.
Upsert(rows, records) ==
    LET fresh == {rec \in records : Conflicting(rows, rec) = {}}
        overwrite(r) == {rec \in records : r \in Conflicting(rows, rec)}
        kept == {r \in BagToSet(rows) : overwrite(r) = {}}
        hit == BagToSet(rows) \ kept
        written(r) == [r EXCEPT !.close_price = (CHOOSE rec \in overwrite(r) : TRUE).close_price]
        updated == [w \in {written(r) : r \in hit} |->
                       BagCardinality([r \in {q \in hit : written(q) = w} |-> rows[r]])]
        untouched == [r \in kept |-> rows[r]]
    IN InsertAll(untouched (+) updated, fresh)

\* ------------------------------------------------------------- sync_asset

NoCall == [symbol |-> <<>>, df |-> NoHistory, ret |-> -1]

IdleFrame ==
    [pc |-> "idle", symbol |-> <<>>, asset_type |-> "", asset_id |-> 0,
     df |-> NoHistory, ret |-> -1, err |-> "", fetched |-> FALSE, wrote |-> FALSE,
     repeat |-> FALSE, prevRet |-> -1, changed |-> FALSE, fault |-> FALSE]

\* What a finished call leaves in the history variable prev.
Finished(f) ==
    IF f.err = "" THEN [symbol |-> f.symbol, df |-> f.df, ret |-> f.ret] ELSE NoCall

\* The call of frame f ends by raising `kind`.
Raise(c, f, kind) ==
    LET g == [f EXCEPT !.pc = "done", !.err = kind]
    IN /\ sync' = [sync EXCEPT ![c] = g]
       /\ prev' = Finished(g)

\* A caller enters sync_asset(symbol, asset_type, interval).
SyncStart(c, symbol, asset_type, interval) ==
    /\ sync[c].pc \in {"idle", "done"}
    /\ nSyncs < MaxSyncs
    /\ sync' = [sync EXCEPT ![c] =
                   [IdleFrame EXCEPT !.pc = "select", !.symbol = symbol,
                                     !.asset_type = asset_type]]
    /\ nSyncs' = nSyncs + 1
    /\ UNCHANGED <<storeVars, merged, prev>>

\* _get_or_create_asset, the lookup: a row is found and its id returned, or
\* none is and the insert follows, or the store raises (RuntimeError).
SelectAsset(c) ==
    /\ sync[c].pc = "select"
    /\ \E ok \in BOOLEAN :
        IF ~ok
        THEN Raise(c, [sync[c] EXCEPT !.fault = TRUE], "RuntimeError")
        ELSE /\ IF SelectAssetBySymbol(sync[c].symbol) # {}
                THEN sync' = [sync EXCEPT ![c].pc = "fetch",
                                          ![c].asset_id = FirstAssetId(sync[c].symbol)]
                ELSE sync' = [sync EXCEPT ![c].pc = "insert"]
             /\ UNCHANGED prev
    /\ UNCHANGED <<storeVars, nSyncs, merged>>

\* _get_or_create_asset, the insert of a new row.
InsertAsset(c) ==
    /\ sync[c].pc = "insert"
    /\ \E ok \in BOOLEAN :
        IF ok /\ AssetInsertAccepted(sync[c].symbol)
        THEN /\ assets' = assets \cup
                    {NewAssetRow(nextAssetId, sync[c].symbol, sync[c].asset_type, Now)}
             /\ nextAssetId' = nextAssetId + 1
             /\ merged' = merged @@ (nextAssetId :> NoHistory)
             /\ sync' = [sync EXCEPT ![c].pc = "fetch", ![c].asset_id = nextAssetId]
             /\ UNCHANGED prev
        ELSE /\ Raise(c, [sync[c] EXCEPT !.fault = ~ok], "RuntimeError")
             /\ UNCHANGED <<assets, nextAssetId, merged>>
    /\ UNCHANGED <<prices, nSyncs>>

\* fetch_history and the empty check: the provider answers with any history
\* of `upstream`; an empty one raises ValueError.
FetchHistory(c, upstream) ==
    /\ sync[c].pc = "fetch"
    /\ \E h \in upstream :
        IF DOMAIN h = {}
        THEN Raise(c, [sync[c] EXCEPT !.fetched = TRUE], "ValueError")
        ELSE LET again == prev.symbol = sync[c].symbol /\ prev.df = h
             IN /\ sync' = [sync EXCEPT ![c].pc = "upsert", ![c].df = h,
                                        ![c].fetched = TRUE, ![c].repeat = again,
                                        ![c].prevRet = IF again THEN prev.ret ELSE -1]
                /\ prev' = NoCall
    /\ UNCHANGED <<storeVars, nSyncs, merged>>

\* The history variable merged after an upsert of df: last write wins.
MergeInto(old, df) ==
    [t \in DOMAIN old \cup DOMAIN df |-> IF t \in DOMAIN df THEN df[t] ELSE old[t]]

\* The upsert gone wrong: a store error is logged and the call goes on to
\* stamp last_updated.
UpsertPricesSwallowing(c) ==
    /\ sync[c].pc = "upsert"
    /\ LET records == Transform(sync[c].asset_id, sync[c].df)
       IN \E ok \in BOOLEAN :
           IF ok
           THEN /\ prices' = Upsert(prices, records)
                /\ merged' = [merged EXCEPT ![sync[c].asset_id] = MergeInto(@, sync[c].df)]
                /\ sync' = [sync EXCEPT ![c].pc = "stamp", ![c].wrote = TRUE,
                                        ![c].changed = (Upsert(prices, records) # prices)]
           ELSE /\ sync' = [sync EXCEPT ![c].pc = "stamp", ![c].fault = TRUE]
                /\ UNCHANGED <<prices, merged>>
    /\ UNCHANGED <<assets, nextAssetId, nSyncs, prev>>

\* Steps 3 and 4: transform, then one upsert of all records; a store error
\* is logged and re-raised, and nothing is written.
UpsertPrices(c) ==
    /\ sync[c].pc = "upsert"
    /\ LET records == Transform(sync[c].asset_id, sync[c].df)
       IN \E ok \in BOOLEAN :
           IF ok
           THEN /\ prices' = Upsert(prices, records)
                /\ merged' = [merged EXCEPT ![sync[c].asset_id] = MergeInto(@, sync[c].df)]
                /\ sync' = [sync EXCEPT ![c].pc = "stamp", ![c].wrote = TRUE,
                                        ![c].changed = (Upsert(prices, records) # prices)]
                /\ UNCHANGED prev
           ELSE /\ Raise(c, [sync[c] EXCEPT !.fault = TRUE], "Exception")
                /\ UNCHANGED <<prices, merged>>
    /\ UNCHANGED <<assets, nextAssetId, nSyncs>>

\* The update gone wrong: the .eq("id", asset_id) filter dropped.
StampEveryRow(rows, aid, now) == {[a EXCEPT !.last_updated = now] : a \in rows}

\* The assets row after update({"last_updated": now}).eq("id", asset_id).
Stamp(rows, aid, now) ==
    {IF a.id = aid THEN [a EXCEPT !.last_updated = now] ELSE a : a \in rows}

\* Step 5 and the return: stamp last_updated, return len(records); a store
\* error here is re-raised after the rows were written.
StampLastUpdated(c) ==
    /\ sync[c].pc = "stamp"
    /\ \E ok \in BOOLEAN :
        IF ok
        THEN /\ assets' = Stamp(assets, sync[c].asset_id, Now)
             /\ LET g == [sync[c] EXCEPT !.pc = "done",
                                         !.ret = Cardinality(DOMAIN sync[c].df)]
                IN /\ sync' = [sync EXCEPT ![c] = g]
                   /\ prev' = Finished(g)
        ELSE /\ Raise(c, [sync[c] EXCEPT !.fault = TRUE], "Exception")
             /\ UNCHANGED assets
    /\ UNCHANGED <<prices, nextAssetId, nSyncs, merged>>

\* One step of the call of caller c.
SyncStep(c, upstream) ==
    \/ SelectAsset(c)
    \/ InsertAsset(c)
    \/ FetchHistory(c, upstream)
    \/ UpsertPrices(c)
    \/ StampLastUpdated(c)

\* ------------------------------------- data_coordinator.py: the silent variant

\* The row the silent variant inserts: symbol, asset_type and name; currency
\* is left to the store's default.
LegacyAssetRow(id, symbol, asset_type, now) ==
    [NewAssetRow(id, symbol, asset_type, now) EXCEPT !.currency = "default"]

\* The call of frame f ends: a bare return, or the end of the function.
ReturnNone(c, f) == sync' = [sync EXCEPT ![c] = [f EXCEPT !.pc = "done"]]

\* POST /sync/{symbol} of app/main.py calls sync_asset(symbol, asset_type, "1wk").
LegacySyncStart(c, symbol, asset_type) ==
    /\ sync[c].pc \in {"idle", "done"}
    /\ nSyncs < MaxSyncs
    /\ sync' = [sync EXCEPT ![c] =
                   [IdleFrame EXCEPT !.pc = "select", !.symbol = symbol,
                                     !.asset_type = asset_type]]
    /\ nSyncs' = nSyncs + 1
    /\ UNCHANGED <<storeVars, merged, prev>>

\* _get_or_create_asset, the lookup; a store error is logged and None
\* returned, and sync_asset logs and returns.
LegacySelectAsset(c) ==
    /\ sync[c].pc = "select"
    /\ \E ok \in BOOLEAN :
        IF ~ok
        THEN ReturnNone(c, [sync[c] EXCEPT !.fault = TRUE])
        ELSE IF SelectAssetBySymbol(sync[c].symbol) # {}
             THEN sync' = [sync EXCEPT ![c].pc = "fetch",
                                       ![c].asset_id = FirstAssetId(sync[c].symbol)]
             ELSE sync' = [sync EXCEPT ![c].pc = "insert"]
    /\ UNCHANGED <<storeVars, nSyncs, merged, prev>>

\* _get_or_create_asset, the insert; an error or an empty answer gives None.
LegacyInsertAsset(c) ==
    /\ sync[c].pc = "insert"
    /\ \E ok \in BOOLEAN :
        IF ok /\ AssetInsertAccepted(sync[c].symbol)
        THEN /\ assets' = assets \cup
                    {LegacyAssetRow(nextAssetId, sync[c].symbol, sync[c].asset_type, Now)}
             /\ nextAssetId' = nextAssetId + 1
             /\ merged' = merged @@ (nextAssetId :> NoHistory)
             /\ sync' = [sync EXCEPT ![c].pc = "fetch", ![c].asset_id = nextAssetId]
        ELSE /\ ReturnNone(c, [sync[c] EXCEPT !.fault = TRUE])
             /\ UNCHANGED <<assets, nextAssetId, merged>>
    /\ UNCHANGED <<prices, nSyncs, prev>>

\* The fetch gone wrong: an empty history raises, as in coordinator.py.
LegacyFetchRaising(c, upstream) == FetchHistory(c, upstream)

\* fetch_history and the empty check: a warning and a return.
LegacyFetchHistory(c, upstream) ==
    /\ sync[c].pc = "fetch"
    /\ \E h \in upstream :
        IF DOMAIN h = {}
        THEN ReturnNone(c, [sync[c] EXCEPT !.fetched = TRUE])
        ELSE sync' = [sync EXCEPT ![c].pc = "upsert", ![c].df = h, ![c].fetched = TRUE]
    /\ UNCHANGED <<storeVars, nSyncs, merged, prev>>

\* The upsert; a store error is caught by `except Exception`, logged, and
\* the function ends.
LegacyUpsertPrices(c) ==
    /\ sync[c].pc = "upsert"
    /\ LET records == Transform(sync[c].asset_id, sync[c].df)
       IN \E ok \in BOOLEAN :
           IF ok
           THEN /\ prices' = Upsert(prices, records)
                /\ merged' = [merged EXCEPT ![sync[c].asset_id] = MergeInto(@, sync[c].df)]
                /\ sync' = [sync EXCEPT ![c].pc = "stamp", ![c].wrote = TRUE,
                                        ![c].changed = (Upsert(prices, records) # prices)]
           ELSE /\ ReturnNone(c, [sync[c] EXCEPT !.fault = TRUE])
                /\ UNCHANGED <<prices, merged>>
    /\ UNCHANGED <<assets, nextAssetId, nSyncs, prev>>

\* The update of last_updated, inside the same try.
LegacyStampLastUpdated(c) ==
    /\ sync[c].pc = "stamp"
    /\ \E ok \in BOOLEAN :
        IF ok
        THEN /\ assets' = Stamp(assets, sync[c].asset_id, Now)
             /\ ReturnNone(c, sync[c])
        ELSE /\ ReturnNone(c, [sync[c] EXCEPT !.fault = TRUE])
             /\ UNCHANGED assets
    /\ UNCHANGED <<prices, nextAssetId, nSyncs, merged, prev>>

LegacySyncStep(c, upstream) ==
    \/ LegacySelectAsset(c)
    \/ LegacyInsertAsset(c)
    \/ LegacyFetchHistory(c, upstream)
    \/ LegacyUpsertPrices(c)
    \/ LegacyStampLastUpdated(c)

\* What POST /sync/{symbol} answers once the call of frame f is over: the
\* success body, or 500 for any exception.
LegacySyncResponse(f) == IF f.err = "" THEN 200 ELSE 500

\* ----------------------------------------------------------------- numbers

\* floor(sqrt(x)) for x >= 0, by bisection.
RECURSIVE ISqrtIn(_, _, _)
ISqrtIn(x, lo, hi) ==
    IF lo >= hi THEN lo
    ELSE LET mid == (lo + hi + 1) \div 2
         IN IF mid * mid <= x THEN ISqrtIn(x, mid, hi) ELSE ISqrtIn(x, lo, mid - 1)

ISqrt(x) == ISqrtIn(x, 0, IF x > 46340 THEN 46340 ELSE x)

\* int(x / 2): Python's int() truncates toward zero.
TruncHalf(x) == IF x >= 0 THEN x \div 2 ELSE -((-x) \div 2)

\* round(x, 4) of a value in units of 1e-5, as a count of 1e-4 ticks:
\* round-half-even.
Round4(x) ==
    LET q == x \div 10
        r == x % 10
    IN IF r < 5 THEN q
       ELSE IF r > 5 THEN q + 1
       ELSE IF q % 2 = 0 THEN q ELSE q + 1

\* scipy.stats.norm.ppf((1 + c) / 2) in thousandths, for c in percent.
ZMilli(c) ==
    CASE c = 50 -> 674
      [] c = 80 -> 1282
      [] c = 95 -> 1960
      [] c = 99 -> 2576

\* np.sqrt(i) in thousandths.
SqrtMilli(i) == ISqrt(i * 1000000)

\* z * std * sqrt(i), in units of 1e-5.
Margin(c, std, i) == (ZMilli(c) * std * SqrtMilli(i)) \div 1000000

\* ------------------------------------------------------------ price series

\* A pandas Series: a DatetimeIndex or not, timestamps in days, values in
\* units of 1e-5, the positions holding NaN.
MakeSeries(dt, ts, v, nulls) == [datetime_index |-> dt, ts |-> ts, v |-> v, nulls |-> nulls]

NoSeries == MakeSeries(FALSE, <<>>, <<>>, {})

\* BaseForecastor._validate_prices: "" when the series passes, else the
\* exception raised.
ValidatePrices(series, min_samples) ==
    IF ~series.datetime_index THEN "TypeError"
    ELSE IF Len(series.v) < min_samples THEN "ValueError"
    ELSE IF series.nulls # {} THEN "ValueError"
    ELSE ""

\* The k-th smallest entry of a non-empty sequence of integers.
KthSmallest(seq, k) ==
    CHOOSE x \in {seq[i] : i \in DOMAIN seq} :
        /\ Cardinality({i \in DOMAIN seq : seq[i] < x}) < k
        /\ Cardinality({i \in DOMAIN seq : seq[i] <= x}) >= k

\* np.diff(index.values) in whole days.
Diffs(ts) == [i \in 1..(Len(ts) - 1) |-> ts[i + 1] - ts[i]]

\* BaseForecastor._infer_freq_days: max(int(median(diffs)), 1); 0 stands for
\* the ValueError int() raises on the NaN median of an index of one entry.
InferFreqDays(ts) ==
    LET d == Diffs(ts)
        m == Len(d)
        med == IF m % 2 = 1 THEN KthSmallest(d, (m + 1) \div 2)
               ELSE TruncHalf(KthSmallest(d, m \div 2) + KthSmallest(d, m \div 2 + 1))
    IN IF m = 0 THEN 0 ELSE IF med > 1 THEN med ELSE 1

\* prices.ewm(span, adjust=False).mean(): alpha = 2 / (span + 1).
RECURSIVE Ewm(_, _, _)
Ewm(v, span, t) ==
    IF t = 1 THEN v[1]
    ELSE ((span - 1) * Ewm(v, span, t - 1) + 2 * v[t]) \div (span + 1)

RECURSIVE SumTo(_, _)
SumTo(f, n) == IF n = 0 THEN 0 ELSE f[n] + SumTo(f, n - 1)

\* residuals.std() (ddof = 1) of prices - ema, for at least two values.
ResidualStd(v, span) ==
    LET n == Len(v)
        r == [t \in 1..n |-> v[t] - Ewm(v, span, t)]
        total == SumTo(r, n)
        sq == [t \in 1..n |-> (n * r[t] - total) * (n * r[t] - total)]
    IN ISqrt(SumTo(sq, n) \div (n * n * (n - 1)))

\* ----------------------------------------------------- forecasting models

\* A model instance just constructed. span is SimpleForecaster.span or
\* LSTMForecastor.lookback_window; has_model is LSTMForecastor.model or
\* ProphetForecaster._model being set; std_nan says the residual std is NaN.
NewModel(kind, span, conf) ==
    [kind |-> kind, span |-> span, conf |-> conf, has_prices |-> FALSE,
     prices |-> NoSeries, residual_std |-> 0, std_nan |-> FALSE, last_ema |-> 0,
     freq_days |-> 7, has_model |-> FALSE, is_fitted |-> FALSE]

\* The outcome of a call on an instance: the instance after it and the
\* exception raised ("" for none).
Outcome(inst, err) == [inst |-> inst, err |-> err]

\* SimpleForecaster.fit.
SimpleFit(inst, series) ==
    LET bad == ValidatePrices(series, inst.span)
        n == Len(series.v)
        held == [inst EXCEPT !.has_prices = TRUE, !.prices = series]
        smoothed == [held EXCEPT !.std_nan = (n < 2),
                                 !.residual_std = IF n < 2 THEN 0
                                                  ELSE ResidualStd(series.v, inst.span),
                                 !.last_ema = Ewm(series.v, inst.span, n)]
        freq == InferFreqDays(series.ts)
    IN IF bad # "" THEN Outcome(inst, bad)
       ELSE IF inst.span < 1 \/ n = 0 THEN Outcome(held, "ValueError")
       ELSE IF freq = 0 THEN Outcome(smoothed, "ValueError")
       ELSE Outcome([smoothed EXCEPT !.freq_days = freq, !.is_fitted = TRUE], "")

\* The guard of forecast: fitted, and the training series is held.
SimpleReady(inst) == inst.is_fitted /\ inst.has_prices

\* The result of forecast: dates in days, values in 1e-4 ticks; nan_bounds
\* says lower_bound and upper_bound hold NaN.
ForecastResult(dates, point, lower, upper, conf, nan) ==
    [dates |-> dates, point_forecast |-> point, lower_bound |-> lower,
     upper_bound |-> upper, confidence_level |-> conf, nan_bounds |-> nan]

NoResult == ForecastResult(<<>>, <<>>, <<>>, <<>>, 0, FALSE)

\* forecast gone wrong: the point forecast follows the latest change of
\* the series instead of staying flat.
SimpleForecastDrifting(inst, periods) ==
    LET n == Len(inst.prices.v)
        last == inst.prices.ts[n]
        drift == IF n >= 2 THEN inst.prices.v[n] - inst.prices.v[n - 1] ELSE 10
        m(i) == Margin(inst.conf, inst.residual_std, i)
    IN ForecastResult(
           [i \in 1..periods |-> last + inst.freq_days * i],
           [i \in 1..periods |-> Round4(inst.last_ema + i * drift)],
           [i \in 1..periods |-> Round4(inst.last_ema + i * drift - m(i))],
           [i \in 1..periods |-> Round4(inst.last_ema + i * drift + m(i))],
           inst.conf, inst.std_nan)

\* SimpleForecaster.forecast on a ready instance.
SimpleForecast(inst, periods) ==
    LET last == inst.prices.ts[Len(inst.prices.ts)]
        m(i) == Margin(inst.conf, inst.residual_std, i)
    IN ForecastResult(
           [i \in 1..periods |-> last + inst.freq_days * i],
           [i \in 1..periods |-> Round4(inst.last_ema)],
           [i \in 1..periods |-> Round4(inst.last_ema - m(i))],
           [i \in 1..periods |-> Round4(inst.last_ema + m(i))],
           inst.conf, inst.std_nan)

\* len(X) of LSTMForecastor._create_sequences: one window per target.
SequenceCount(n, lookback) == IF n > lookback THEN n - lookback ELSE 0

\* int(len(X) * (1 - test_size)) with the default test_size of 0.2.
TrainSplit(nX) == (nX * 4) \div 5

\* The fallback residual std: 5% of the price range.
RangeStd(v) ==
    LET hi == CHOOSE x \in {v[i] : i \in DOMAIN v} : \A j \in DOMAIN v : v[j] <= x
        lo == CHOOSE x \in {v[i] : i \in DOMAIN v} : \A j \in DOMAIN v : v[j] >= x
    IN ((hi - lo) * 5) \div 100

\* LSTMForecastor.fit. trained says Keras' training returned; val_std is
\* the std of the validation residuals the trained network produced.
LstmFit(inst, series, trained, val_std) ==
    LET bad == ValidatePrices(series, inst.span + 1)
        n == Len(series.v)
        freq == InferFreqDays(series.ts)
        nX == SequenceCount(n, inst.span)
        held == [inst EXCEPT !.has_prices = TRUE, !.prices = series]
        scaled == [held EXCEPT !.freq_days = freq]
        built == [scaled EXCEPT !.has_model = TRUE]
        std == IF nX - TrainSplit(nX) > 0 THEN val_std ELSE RangeStd(series.v)
    IN IF bad # "" THEN Outcome(inst, bad)
       ELSE IF freq = 0 THEN Outcome(held, "ValueError")
       ELSE IF nX = 0 THEN Outcome(scaled, "ValueError")
       ELSE IF ~trained THEN Outcome(built, "Exception")
       ELSE Outcome([built EXCEPT !.residual_std = std, !.is_fitted = TRUE], "")

\* The guard of LSTMForecastor.forecast and ProphetForecaster.forecast.
NetReady(inst) == inst.is_fitted /\ inst.has_model

\* LSTMForecastor.forecast on a ready instance; preds are the network's
\* predictions in the original scale, in units of 1e-5.
LstmForecast(inst, periods, preds) ==
    LET last == inst.prices.ts[Len(inst.prices.ts)]
        m(i) == Margin(inst.conf, inst.residual_std, i)
    IN ForecastResult(
           [i \in 1..periods |-> last + inst.freq_days * i],
           [i \in 1..periods |-> Round4(preds[i])],
           [i \in 1..periods |-> Round4(preds[i] - m(i))],
           [i \in 1..periods |-> Round4(preds[i] + m(i))],
           inst.conf, FALSE)

\* ProphetForecaster.fit. installed says the prophet package imports;
\* trained says Prophet.fit returned.
ProphetFit(inst, series, installed, trained) ==
    LET bad == ValidatePrices(series, ProphetMinSamples)
        held == [inst EXCEPT !.has_prices = TRUE, !.prices = series]
        freq == InferFreqDays(series.ts)
        built == [held EXCEPT !.freq_days = freq, !.has_model = TRUE]
    IN IF ~installed THEN Outcome(inst, "ImportError")
       ELSE IF bad # "" THEN Outcome(inst, bad)
       ELSE IF freq = 0 THEN Outcome(held, "ValueError")
       ELSE IF ~trained THEN Outcome(built, "Exception")
       ELSE Outcome([built EXCEPT !.is_fitted = TRUE], "")

\* ProphetForecaster.forecast on a ready instance: the last `periods` rows
\* of Prophet's prediction; yhat and the half-widths of its band come from
\* the library.
ProphetForecast(inst, periods, yhat, below, above) ==
    LET last == inst.prices.ts[Len(inst.prices.ts)]
    IN ForecastResult(
           [i \in 1..periods |-> last + inst.freq_days * i],
           [i \in 1..periods |-> Round4(yhat[i])],
           [i \in 1..periods |-> Round4(yhat[i] - below)],
           [i \in 1..periods |-> Round4(yhat[i] + above)],
           inst.conf, FALSE)

\* forecast's guard for the instance's kind.
Ready(inst) == IF inst.kind = "base" THEN SimpleReady(inst) ELSE NetReady(inst)

\* ------------------------------------------------- a model instance in use

\* Training inputs: series of 0..MaxLen and of ProphetMinSamples samples,
\* weekly or monthly, and three defective ones: no DatetimeIndex, a NaN,
\* timestamps in descending order.
SampleClose(i) == 1000 + 2 * i + 15 * (i % 2)

GoodSeries(n, step) ==
    MakeSeries(TRUE, [i \in 1..n |-> step * i], [i \in 1..n |-> SampleClose(i)], {})

Descending(series) ==
    LET n == Len(series.ts)
    IN [series EXCEPT !.ts = [i \in 1..n |-> series.ts[n + 1 - i]]]

TrainingInputs ==
    {GoodSeries(n, step) : n \in (0..MaxLen) \cup {ProphetMinSamples}, step \in StepDays}
        \cup {[GoodSeries(MaxLen, 7) EXCEPT !.datetime_index = FALSE],
              [GoodSeries(MaxLen, 7) EXCEPT !.nulls = {1}],
              Descending(GoodSeries(MaxLen, 7))}

NoModel == NewModel("", 0, 0)

NoFits == [fits |-> 0, failed |-> FALSE, fitted |-> FALSE]

\* A call on the instance: the operation, the exception it raised, its
\* argument (periods, or the series given to fit) and its result.
Called(op, err, periods, result) ==
    [op |-> op, err |-> err, periods |-> periods, result |-> result, input |-> NoSeries]

\* SimpleForecaster(span, conf), LSTMForecastor(lookback_window = span, conf)
\* or ProphetForecaster(conf); only the LSTM constructor needs its package.
Construct(kind, span, conf) ==
    LET ok == kind = "lstm" => libs.tensorflow
    IN /\ kind = "lstm" => span >= 1
       /\ kind = "prophet" => span = 0
       /\ model' = IF ok THEN NewModel(kind, span, conf) ELSE NoModel
       /\ out' = Called("init", IF ok THEN "" ELSE "ImportError", 0, NoResult)
       /\ hist' = NoFits
       /\ UNCHANGED libs

\* instance.fit(series).
Fit(series) ==
    /\ model.kind # ""
    /\ hist.fits < MaxFits
    /\ \E trained \in (IF model.kind = "base" THEN {TRUE} ELSE BOOLEAN),
          val_std \in (IF model.kind = "lstm" THEN ValStds ELSE {0}) :
          LET o == CASE model.kind = "base" -> SimpleFit(model, series)
                     [] model.kind = "lstm" -> LstmFit(model, series, trained, val_std)
                     [] model.kind = "prophet" -> ProphetFit(model, series, libs.prophet, trained)
          IN /\ model' = o.inst
             /\ out' = [Called("fit", o.err, 0, NoResult) EXCEPT !.input = series]
             /\ hist' = [fits |-> hist.fits + 1,
                         failed |-> hist.failed \/ o.err # "",
                         fitted |-> hist.fitted \/ o.err = ""]
    /\ UNCHANGED libs

\* instance.forecast(periods).
Forecast(periods) ==
    /\ model.kind # ""
    /\ IF ~Ready(model)
       THEN out' = Called("forecast", "ValueError", periods, NoResult)
       ELSE \E preds \in (IF model.kind = "base" THEN {<<>>} ELSE [1..periods -> PredValues]),
               below \in (IF model.kind = "prophet" THEN BandWidths ELSE {0}),
               above \in (IF model.kind = "prophet" THEN BandWidths ELSE {0}) :
               out' = Called("forecast", "", periods,
                             CASE model.kind = "base" -> SimpleForecast(model, periods)
                               [] model.kind = "lstm" -> LstmForecast(model, periods, preds)
                               [] model.kind = "prophet" ->
                                      ProphetForecast(model, periods, preds, below, above))
    /\ UNCHANGED <<libs, model, hist>>

\* ------------------------------------------------------ request handling

LowerCase == <<"a", "b", "c", "d", "e", "f", "g", "h", "i", "j", "k", "l", "m",
               "n", "o", "p", "q", "r", "s", "t", "u", "v", "w", "x", "y", "z">>
UpperCase == <<"A", "B", "C", "D", "E", "F", "G", "H", "I", "J", "K", "L", "M",
               "N", "O", "P", "Q", "R", "S", "T", "U", "V", "W", "X", "Y", "Z">>
Whitespace == {" ", "\t", "\n"}

\* str.upper on one character.
UpperChar(ch) ==
    IF \E k \in DOMAIN LowerCase : LowerCase[k] = ch
    THEN UpperCase[CHOOSE k \in DOMAIN LowerCase : LowerCase[k] = ch]
    ELSE ch

RECURSIVE LStrip(_)
LStrip(str) == IF str = <<>> \/ Head(str) \notin Whitespace THEN str ELSE LStrip(Tail(str))

RECURSIVE RStrip(_)
RStrip(str) ==
    IF str = <<>> \/ str[Len(str)] \notin Whitespace THEN str
    ELSE RStrip(SubSeq(str, 1, Len(str) - 1))

\* symbol.strip().upper()
Normalise(symbol) == [k \in DOMAIN RStrip(LStrip(symbol)) |-> UpperChar(RStrip(LStrip(symbol))[k])]

\* INTERVAL_CONFIG[interval]["min_samples"].
MinSamples(interval) == IF interval = "1wk" THEN WeeklyMinSamples ELSE MonthlyMinSamples

\* What a step of a handler raises: an HTTPException's status code with the
\* two counts its detail reports (0 when it reports none); status 0 is no
\* exception.
HttpError(status, minimum, actual) == [status |-> status, minimum |-> minimum, actual |-> actual]

Passed == HttpError(0, 0, 0)

\* The check gone wrong: a series of exactly the minimum length rejected.
ValidateAtLeastOneMore(series, interval, symbol) ==
    IF Len(series.v) <= MinSamples(interval)
    THEN HttpError(422, MinSamples(interval), Len(series.v))
    ELSE Passed

\* The check gone wrong: every series let through.
ValidateNothing(series, interval, symbol) == Passed

\* _validate_interval_minimums.
ValidateIntervalMinimums(series, interval, symbol) ==
    IF Len(series.v) < MinSamples(interval)
    THEN HttpError(422, MinSamples(interval), Len(series.v))
    ELSE Passed

\* The rows of a select ordered by timestamp ascending, as a sequence.
RECURSIVE OrderByTimestamp(_, _)
OrderByTimestamp(rows, left) ==
    IF left = {} THEN <<>>
    ELSE LET first == CHOOSE r \in left : \A q \in left : r.timestamp <= q.timestamp
         IN [k \in 1..CopiesIn(first, rows) |-> first]
                \o OrderByTimestamp(rows, left \ {first})

\* A load that keeps only the rows on the monthly grid.
MonthlyGridSeries(aid) ==
    LET grid == {r \in RowsOf(aid) : r.timestamp % 30 = 0}
        rows == OrderByTimestamp(prices, grid)
    IN MakeSeries(TRUE, [k \in DOMAIN rows |-> rows[k].timestamp],
                  [k \in DOMAIN rows |-> rows[k].close_price], {})

\* The pd.Series _fetch_prices builds from the rows of asset `aid`.
PriceSeries(aid) ==
    LET rows == OrderByTimestamp(prices, RowsOf(aid))
    IN MakeSeries(TRUE, [k \in DOMAIN rows |-> rows[k].timestamp],
                  [k \in DOMAIN rows |-> rows[k].close_price], {})

\* The provider's answers to fetch_history(symbol, interval), one row per
\* week or per month: no history, one row too few for the interval's
\* minimum, or just enough.
UpstreamFor(interval) ==
    LET step == IF interval = "1wk" THEN 7 ELSE 30
    IN {[t \in {step * k : k \in 1..n} |-> SampleClose(t \div step)] :
           n \in {0, MinSamples(interval) - 1, MinSamples(interval)}}

\* SyncSummary.
SyncSummary(performed, rows_synced) == [performed |-> performed, rows_synced |-> rows_synced]

\* The await gone wrong: the handler goes on without the sync's result.
SyncNotAwaited(f) == TRUE

\* The future of run_in_executor(_do_sync) has a result or an exception.
SyncReturned(f) == f.pc = "done"

\* `if not symbol_exists`, gone wrong: a sync for every request.
AlwaysSync(symbol_exists) == TRUE

\* `if not symbol_exists`: the sync is triggered for a new symbol only.
NeedsSync(symbol_exists) == ~symbol_exists

\* The except clauses around the sync, gone wrong: every failure a 404.
SyncStatusNotFound(err) == 404

\* The except clauses around the awaited sync.
SyncStatus(err) ==
    CASE err = "ValueError" -> 404
      [] err = "RuntimeError" -> 503
      [] OTHER -> 500

\* The except clauses around the model run, gone wrong: a missing package
\* answered like any unexpected error.
ModelStatusGeneric(err) ==
    CASE err = "ValueError" -> 422
      [] OTHER -> 500

\* The except clauses around the awaited model run.
ModelStatus(err) ==
    CASE err = "ImportError" -> 503
      [] err = "ValueError" -> 422
      [] OTHER -> 500

\* _run_model / _run_base / _run_lstm / _run_prophet: construct, fit,
\* forecast. env holds what the libraries decide: whether training returns,
\* the validation std, the predictions, Prophet's band. Gives the
\* exception raised ("" for none), the result, and the calls begun.
RunModel(kind, lookback, conf, periods, series, tensorflow, prophet, env) ==
    LET span == IF kind = "base"
                THEN (IF lookback < Len(series.v) - 1 THEN lookback ELSE Len(series.v) - 1)
                ELSE IF kind = "lstm" THEN lookback ELSE 0
        inst == NewModel(kind, span, conf)
        o == CASE kind = "base" -> SimpleFit(inst, series)
               [] kind = "lstm" -> LstmFit(inst, series, env.trained, env.val_std)
               [] kind = "prophet" -> ProphetFit(inst, series, prophet, env.trained)
        res == CASE kind = "base" -> SimpleForecast(o.inst, periods)
                 [] kind = "lstm" -> LstmForecast(o.inst, periods, env.preds)
                 [] kind = "prophet" ->
                        ProphetForecast(o.inst, periods, env.preds, env.below, env.above)
    IN IF kind = "lstm" /\ ~tensorflow
       THEN [err |-> "ImportError", result |-> NoResult, begun |-> <<"construct">>]
       ELSE IF o.err # ""
       THEN [err |-> o.err, result |-> NoResult, begun |-> <<"construct", "fit">>]
       ELSE IF ~Ready(o.inst)
       THEN [err |-> "ValueError", result |-> NoResult,
             begun |-> <<"construct", "fit", "forecast">>]
       ELSE [err |-> "", result |-> res, begun |-> <<"construct", "fit", "forecast">>]

\* A request not yet received. trace is history: the steps begun, in order;
\* sent counts the requests the caller has sent so far.
IdleRequest ==
    [pc |-> "idle", route |-> "", symbol |-> <<>>, interval |-> "", asset_type |-> "",
     model |-> "", periods |-> 0, lookback |-> 0, conf |-> 0,
     symbol_exists |-> FALSE, sync |-> SyncSummary(FALSE, 0), syncs |-> 0,
     asset_id |-> 0, prices |-> NoSeries, loaded |-> FALSE,
     error |-> Passed, status |-> 0, result |-> NoResult, data_points_used |-> 0,
     trace |-> <<>>, sent |-> 0]

\* The handler of request r raises: the request ends with that status.
Respond(r, f, error) ==
    req' = [req EXCEPT ![r] = [f EXCEPT !.pc = "done", !.error = error, !.status = error.status]]

\* POST /analyze/{symbol} or POST /forecast/{model} arrives; both routes
\* trim and upper-case the symbol before anything else.
Receive(r, route, symbol, interval, asset_type, kind, periods, lookback) ==
    /\ req[r].pc \in {"idle", "done"}
    /\ req[r].sent < MaxRequests
    /\ req' = [req EXCEPT ![r] =
                  [IdleRequest EXCEPT !.pc = IF route = "analyze" THEN "check" ELSE "fetch_asset",
                                      !.route = route, !.symbol = Normalise(symbol),
                                      !.interval = interval, !.asset_type = asset_type,
                                      !.model = kind, !.periods = periods,
                                      !.lookback = lookback, !.conf = DefaultConfidence,
                                      !.sent = req[r].sent + 1]]
    /\ sync' = [sync EXCEPT ![r] = IdleFrame]
    /\ UNCHANGED <<storeVars, nSyncs, merged, prev>>

\* Step 1 and the branch of step 2 of analyze: the existence check, then,
\* for a new symbol, the sync handed to the thread pool.
CheckExists(r) ==
    /\ req[r].pc = "check"
    /\ LET f == [req[r] EXCEPT !.trace = Append(@, "check")]
       IN \E ok \in BOOLEAN :
            IF ~ok
            THEN /\ Respond(r, f, HttpError(503, 0, 0))
                 /\ UNCHANGED syncVars
            ELSE LET exists == SelectAssetBySymbol(f.symbol) # {}
                 IN IF NeedsSync(exists)
                    THEN /\ req' = [req EXCEPT ![r] =
                                       [f EXCEPT !.pc = "syncing", !.symbol_exists = exists,
                                                 !.syncs = @ + 1, !.trace = Append(@, "sync")]]
                         /\ SyncStart(r, f.symbol, f.asset_type, f.interval)
                    ELSE /\ req' = [req EXCEPT ![r] =
                                       [f EXCEPT !.pc = "fetch_asset", !.symbol_exists = exists,
                                                 !.sync = SyncSummary(FALSE, 0)]]
                         /\ UNCHANGED syncVars

\* The awaited sync returns or raises in the handler.
AwaitSync(r) ==
    /\ req[r].pc = "syncing"
    /\ SyncReturned(sync[r])
    /\ IF sync[r].err = ""
       THEN req' = [req EXCEPT ![r].pc = "fetch_asset",
                               ![r].sync = SyncSummary(TRUE, sync[r].ret)]
       ELSE Respond(r, req[r], HttpError(SyncStatus(sync[r].err), 0, 0))
    /\ UNCHANGED syncVars

\* _fetch_prices, the lookup of the asset row.
FetchAsset(r) ==
    /\ req[r].pc = "fetch_asset"
    /\ LET f == [req[r] EXCEPT !.trace = Append(@, "fetch")]
       IN \E ok \in BOOLEAN :
            IF ~ok THEN Respond(r, f, HttpError(503, 0, 0))
            ELSE IF SelectAssetBySymbol(f.symbol) = {} THEN Respond(r, f, HttpError(404, 0, 0))
            ELSE req' = [req EXCEPT ![r] = [f EXCEPT !.pc = "fetch_rows",
                                                     !.asset_id = FirstAssetId(f.symbol)]]
    /\ UNCHANGED syncVars

\* _fetch_prices, the select of the price rows.
FetchRows(r) ==
    /\ req[r].pc = "fetch_rows"
    /\ \E ok \in BOOLEAN :
         IF ~ok THEN Respond(r, req[r], HttpError(503, 0, 0))
         ELSE IF RowsOf(req[r].asset_id) = {} THEN Respond(r, req[r], HttpError(404, 0, 0))
         ELSE req' = [req EXCEPT ![r].pc = "validate", ![r].loaded = TRUE,
                                 ![r].prices = PriceSeries(req[r].asset_id)]
    /\ UNCHANGED syncVars

\* The interval minimum check on the fetched series.
Validate(r) ==
    /\ req[r].pc = "validate"
    /\ LET f == [req[r] EXCEPT !.trace = Append(@, "validate")]
           e == ValidateIntervalMinimums(f.prices, f.interval, f.symbol)
       IN IF e.status # 0 THEN Respond(r, f, e)
          ELSE req' = [req EXCEPT ![r] = [f EXCEPT !.pc = "modelling"]]
    /\ UNCHANGED syncVars

\* What the libraries may decide in one model run: the baseline depends
\* on none; Keras or Prophet may fail to train, and otherwise predict.
LibraryOutcomes(kind, periods) ==
    {[trained |-> trained, val_std |-> 4, preds |-> [k \in 1..periods |-> 1005],
      below |-> 12, above |-> 12] : trained \in (IF kind = "base" THEN {TRUE} ELSE BOOLEAN)}

\* The model run in the thread pool, awaited, and the response.
Model(r) ==
    /\ req[r].pc = "modelling"
    /\ \E env \in LibraryOutcomes(req[r].model, req[r].periods) :
         LET m == RunModel(req[r].model, req[r].lookback, req[r].conf, req[r].periods,
                           req[r].prices, libs.tensorflow, libs.prophet, env)
             f == [req[r] EXCEPT !.trace = @ \o m.begun]
         IN IF m.err # "" THEN Respond(r, f, HttpError(ModelStatus(m.err), 0, 0))
            ELSE req' = [req EXCEPT ![r] =
                            [f EXCEPT !.pc = "done", !.status = 200, !.result = m.result,
                                      !.data_points_used = Len(f.prices.v)]]
    /\ UNCHANGED syncVars

\* ----------------------------------------------- the interval check alone

NoCheck == [n |-> 0, interval |-> "", symbol |-> <<>>, applied |-> FALSE, ret |-> Passed]

\* _validate_interval_minimums applied to a series of check.n samples.
ApplyValidate ==
    /\ ~check.applied
    /\ check.interval # ""
    /\ check' = [check EXCEPT !.applied = TRUE,
                              !.ret = ValidateIntervalMinimums(
                                          GoodSeries(check.n, IF check.interval = "1wk" THEN 7 ELSE 30),
                                          check.interval, check.symbol)]

\* ------------------------------------------ what the endpoints answer with

\* The except clauses of POST /assets/sync/{symbol}.
SyncEndpointStatus(err) ==
    CASE err = "ValueError" -> 422
      [] err = "RuntimeError" -> 503
      [] OTHER -> 500

\* The except clauses of POST /api/forecast/lstm.
LstmRouteStatus(err) ==
    CASE err \in {"ValueError", "TypeError"} -> 422
      [] err = "ImportError" -> 501
      [] OTHER -> 500

\* A failure: the endpoint, the step of its handler that fails, and what
\* the step raises ("NoRows" and "TooFew" are the two conditions a handler
\* finds itself and answers with an HTTPException of its own).
Failure(endpoint, step, exc) == [endpoint |-> endpoint, step |-> step, exc |-> exc]

NoFailure == Failure("", "", "")

\* What the coordinator's sync and a model run may raise.
SyncErrors == {"ValueError", "RuntimeError", "Exception"}
ModelErrors == {"ImportError", "ValueError", "Exception"}

\* The failures of POST /analyze/{symbol}, POST /forecast/{model},
\* POST /assets/sync/{symbol} and POST /api/forecast/lstm.
Failures ==
    {Failure("analyze", "check", "Exception")}
        \cup {Failure("analyze", "sync", e) : e \in SyncErrors}
        \cup {Failure(ep, "fetch", e) : ep \in Routes, e \in {"Exception", "NoRows"}}
        \cup {Failure(ep, "validate", "TooFew") : ep \in Routes}
        \cup {Failure(ep, "model", e) : ep \in Routes, e \in ModelErrors}
        \cup {Failure("sync", "sync", e) : e \in SyncErrors}
        \cup {Failure("lstm_route", "model", e) : e \in ModelErrors}

\* The status code the endpoint answers the failure with.
Signal(f) ==
    CASE f.endpoint = "sync" -> SyncEndpointStatus(f.exc)
      [] f.endpoint = "lstm_route" -> LstmRouteStatus(f.exc)
      [] f.step = "check" -> 503
      [] f.step = "sync" -> SyncStatus(f.exc)
      [] f.step = "fetch" -> IF f.exc = "NoRows" THEN 404 ELSE 503
      [] f.step = "validate" ->
             ValidateIntervalMinimums(NoSeries, "1wk", <<>>).status
      [] f.step = "model" -> ModelStatus(f.exc)

NoMapping == [a |-> NoFailure, b |-> NoFailure, answered |-> FALSE, sa |-> 0, sb |-> 0]

\* The two failures are answered, each by its endpoint.
Answer ==
    /\ ~mapped.answered
    /\ mapped.a # NoFailure
    /\ mapped' = [mapped EXCEPT !.answered = TRUE, !.sa = Signal(mapped.a),
                                !.sb = Signal(mapped.b)]

\* ------------------------------------------------------ the horizon label

DigitChars == <<"0", "1", "2", "3", "4", "5", "6", "7", "8", "9">>

\* str(n) of an integer n >= 0, as the sequence of its digits.
RECURSIVE Decimal(_)
Decimal(n) ==
    IF n < 10 THEN <<DigitChars[n + 1]>>
    ELSE Append(Decimal(n \div 10), DigitChars[(n % 10) + 1])

\* round(num / den) for num >= 0, den > 0: to the nearest integer, a tie to
\* the even one.
RoundHalfEven(num, den) ==
    LET q == num \div den
        r == num % den
    IN IF 2 * r < den THEN q
       ELSE IF 2 * r > den THEN q + 1
       ELSE IF q % 2 = 0 THEN q ELSE q + 1

\* f"{num / den:.1f}"
OneDecimal(num, den) ==
    LET t == RoundHalfEven(10 * num, den)
    IN Decimal(t \div 10) \o <<".">> \o Decimal(t % 10)

\* The suffix gone wrong: "years" whatever the number.
YearsAheadPlural(num, den) ==
    <<"~">> \o OneDecimal(num, den) \o <<" year", "s", " ahead">>

\* f"~{years:.1f} year{'s' if years >= 2 else ''} ahead" for years = num / den.
YearsAhead(num, den) ==
    <<"~">> \o OneDecimal(num, den) \o <<" year">>
        \o (IF num >= 2 * den THEN <<"s">> ELSE <<>>) \o <<" ahead">>

\* f"~{m} month{'s' if m != 1 else ''} ahead"
MonthsAhead(m) ==
    <<"~">> \o Decimal(m) \o <<" month">> \o (IF m # 1 THEN <<"s">> ELSE <<>>) \o <<" ahead">>

\* INTERVAL_CONFIG[interval]["label_singular"] and ["label_plural"].
LabelSingular(interval) == IF interval = "1wk" THEN "week" ELSE "month"
LabelPlural(interval) == IF interval = "1wk" THEN "weeks" ELSE "months"

\* The label gone wrong: the weeks turned into months by truncation, so
\* that 4 weeks are no month yet.
HorizonLabelTruncating(periods, interval) ==
    LET unit == IF periods = 1 THEN LabelSingular(interval) ELSE LabelPlural(interval)
        m == (100 * periods) \div 433
        approx == IF interval = "1wk"
                  THEN (IF m >= 12 THEN YearsAhead(m, 12)
                        ELSE IF m >= 1 THEN MonthsAhead(m)
                        ELSE <<"~days ahead">>)
                  ELSE (IF periods >= 12 THEN YearsAhead(periods, 12)
                        ELSE MonthsAhead(periods))
    IN Decimal(periods) \o <<" ", unit, " (">> \o approx \o <<")">>

\* _horizon_label: the text as the sequence of its pieces.
HorizonLabel(periods, interval) ==
    LET unit == IF periods = 1 THEN LabelSingular(interval) ELSE LabelPlural(interval)
        m == RoundHalfEven(100 * periods, 433)
        approx == IF interval = "1wk"
                  THEN (IF m >= 12 THEN YearsAhead(m, 12)
                        ELSE IF m >= 1 THEN MonthsAhead(m)
                        ELSE <<"~days ahead">>)
                  ELSE (IF periods >= 12 THEN YearsAhead(periods, 12)
                        ELSE MonthsAhead(periods))
    IN Decimal(periods) \o <<" ", unit, " (">> \o approx \o <<")">>

NoLabel == [periods |-> 0, interval |-> "", applied |-> FALSE, text |-> <<>>]

\* _horizon_label applied to label.periods and label.interval.
ApplyLabel ==
    /\ ~label.applied
    /\ label.interval # ""
    /\ label' = [label EXCEPT !.applied = TRUE,
                              !.text = HorizonLabel(label.periods, label.interval)]

\* ---------------------------------------------------------- thread pools

\* The requests in flight, the executors (analyze.py and forecast.py each
\* create one) and the endpoints that run sync or model work.
Requests == 1..MaxInFlight
Executors == {"analyze", "forecast"}
Endpoints == {"analyze", "forecast", "sync"}

\* The _executor the handlers of an endpoint's module submit to.
ExecutorOf(endpoint) == endpoint

IdlePool == [queue |-> <<>>, running |-> {}]

\* A request: the handler's position, its unit of work ("sync" or "model"),
\* where the unit is (queued, running, returned) and whether it raised;
\* waited is history: the unit found every worker of its pool busy.
IdleCall ==
    [pc |-> "idle", endpoint |-> "", unit |-> "", at |-> "", raised |-> FALSE,
     waited |-> FALSE, response |-> ""]

\* The handler of request c answers.
Answered(c, f, response) ==
    /\ calls' = [calls EXCEPT ![c] = [f EXCEPT !.pc = "done", !.response = response]]
    /\ UNCHANGED pools

\* await loop.run_in_executor(_executor, fn, ...): the unit joins the work
\* queue of the executor and the handler suspends.
RunInExecutor(c, f, executor, unit) ==
    /\ pools' = [pools EXCEPT ![executor].queue = Append(@, c)]
    /\ calls' = [calls EXCEPT ![c] =
                    [f EXCEPT !.pc = "await", !.unit = unit, !.at = "queued",
                              !.waited = @ \/ Cardinality(pools[executor].running) = MaxWorkers]]

\* A request arrives and its handler runs to its first await or to its
\* answer. exists is what analyze's existence check finds; passes says the
\* store answers and the fetched series is long enough. POST
\* /assets/sync/{symbol} is a plain function: it calls the coordinator in
\* the thread the framework runs the handler in.
Accept(c, endpoint, exists, passes) ==
    /\ calls[c].pc = "idle"
    /\ LET f == [IdleCall EXCEPT !.endpoint = endpoint]
       IN CASE endpoint = "sync" ->
                   /\ calls' = [calls EXCEPT ![c] =
                                   [f EXCEPT !.pc = "in_thread", !.unit = "sync",
                                             !.at = "running"]]
                   /\ UNCHANGED pools
            [] endpoint = "analyze" /\ ~exists ->
                   RunInExecutor(c, f, ExecutorOf(endpoint), "sync")
            [] OTHER ->
                   IF passes THEN RunInExecutor(c, f, ExecutorOf(endpoint), "model")
                   ELSE Answered(c, f, "error")

\* A free worker of the executor takes the unit at the head of its queue.
WorkerTakes(executor) ==
    /\ pools[executor].queue # <<>>
    /\ Cardinality(pools[executor].running) < MaxWorkers
    /\ LET c == Head(pools[executor].queue)
       IN /\ pools' = [pools EXCEPT ![executor].queue = Tail(@),
                                    ![executor].running = @ \cup {c}]
          /\ calls' = [calls EXCEPT ![c].at = "running"]

\* The unit gone wrong: the worker is freed but the future is never resolved.
WorkerDoneLost(executor, c, raised) ==
    /\ c \in pools[executor].running
    /\ pools' = [pools EXCEPT ![executor].running = @ \ {c}]
    /\ calls' = [calls EXCEPT ![c].raised = raised]

\* The unit returns or raises: the worker is free, the future is resolved.
WorkerDone(executor, c, raised) ==
    /\ c \in pools[executor].running
    /\ pools' = [pools EXCEPT ![executor].running = @ \ {c}]
    /\ calls' = [calls EXCEPT ![c].at = "returned", ![c].raised = raised]

\* The sync endpoint's call of the coordinator returns or raises.
ThreadDone(c, raised) ==
    /\ calls[c].pc = "in_thread"
    /\ Answered(c, [calls[c] EXCEPT !.at = "returned", !.raised = raised],
                IF raised THEN "error" ELSE "ok")

\* The awaiting handler goes on with the unit's result or exception: after
\* a sync it fetches and validates, then submits the model run.
Resume(c, passes) ==
    /\ calls[c].pc = "await"
    /\ calls[c].at = "returned"
    /\ IF calls[c].raised THEN Answered(c, calls[c], "error")
       ELSE IF calls[c].unit = "model" THEN Answered(c, calls[c], "ok")
       ELSE IF passes
            THEN RunInExecutor(c, calls[c], ExecutorOf(calls[c].endpoint), "model")
            ELSE Answered(c, calls[c], "error")

\* --------------------------------------------- model instances on the pool

\* The workers of one executor.
Workers == 1..MaxWorkers

\* A worker with no unit; accessed is history: the process-wide state the
\* unit's model instance has read or written.
IdleUnit ==
    [pc |-> "idle", kind |-> "", inst |-> 0, accessed |-> {}, runs |-> 0, raised |-> FALSE]

\* The process before any model was built: the global generators of numpy
\* and TensorFlow unseeded, no draw taken, no model object created.
Unseeded == [seed |-> 0, drawn |-> 0, created |-> 0]

\* _run_model begins on worker w: it constructs a new model of the
\* requested kind. LSTMForecastor.__init__ ends with
\* tf.random.set_seed(random_state) and np.random.seed(random_state), which
\* reset the generators of the process.
RunModelConstruct(w, kind) ==
    /\ units[w].pc \in {"idle", "done"}
    /\ units[w].runs < MaxRequests
    /\ units' = [units EXCEPT ![w] =
                    [pc |-> "constructed", kind |-> kind, inst |-> globals.created + 1,
                     accessed |-> IF kind = "lstm" THEN {"random"} ELSE {},
                     runs |-> units[w].runs + 1, raised |-> FALSE]]
    /\ globals' = IF kind = "lstm"
                  THEN [seed |-> RandomState, drawn |-> 0, created |-> globals.created + 1]
                  ELSE [globals EXCEPT !.created = @ + 1]

\* model.fit(prices): it returns or raises; the network of the LSTM model is
\* built and trained with initialisers and dropout that carry no seed of
\* their own and draw from the global generator.
RunModelFit(w, ok) ==
    /\ units[w].pc = "constructed"
    /\ units' = [units EXCEPT ![w].pc = IF ok THEN "fitted" ELSE "done",
                              ![w].raised = ~ok,
                              ![w].accessed = IF units[w].kind = "lstm"
                                              THEN @ \cup {"random"} ELSE @]
    /\ globals' = IF units[w].kind = "lstm"
                  THEN [globals EXCEPT !.drawn = @ + 1]
                  ELSE globals

\* model.forecast(periods) and the return of _run_model: the local `model`
\* goes out of scope.
RunModelForecast(w) ==
    /\ units[w].pc = "fitted"
    /\ units' = [units EXCEPT ![w].pc = "done"]
    /\ UNCHANGED globals

\* ------------------------------------------------- iterative prediction

\* The slice gone wrong: the window is never trimmed.
Untrimmed(a, n) == a

\* a[-n:] of a Python sequence.
LastN(a, n) == IF n = 0 \/ n >= Len(a) THEN a ELSE SubSeq(a, Len(a) - n + 1, Len(a))

\* What the loop of LSTMForecastor.forecast has built: the working array seq,
\* the windows X_in given to the network, raw_preds, and the exception raised.
Rolled(seq, windows, raw, err) == [seq |-> seq, windows |-> windows, raw |-> raw, err |-> err]

\* The iterations k.. of `for _ in range(periods)`: X_in is seq[-lookback:]
\* reshaped to (1, lookback, 1), which raises ValueError for any other
\* number of values; preds[k] is what the network predicts for it, and
\* np.append gives a new array.
RECURSIVE Iterate(_, _, _, _, _, _)
Iterate(seq, windows, raw, lookback, preds, k) ==
    IF k > Len(preds) THEN Rolled(seq, windows, raw, "")
    ELSE LET x_in == LastN(seq, lookback)
         IN IF Len(x_in) # lookback THEN Rolled(seq, windows, raw, "ValueError")
            ELSE Iterate(Append(seq, preds[k]), Append(windows, x_in),
                         Append(raw, preds[k]), lookback, preds, k + 1)

\* seq = self._scaled_prices[-self.lookback_window:].flatten().copy(), then
\* the loop.
RollForward(scaled, lookback, preds) ==
    Iterate(LastN(scaled, lookback), <<>>, <<>>, lookback, preds, 1)

\* What MinMaxScaler.fit_transform gives: the smallest price at 0 and the
\* largest at 1, or every price at 0 when all are equal.
IsScaled(v) ==
    /\ \E i \in DOMAIN v : v[i] = 0
    /\ (\E i \in DOMAIN v : v[i] = 10) \/ (\A i \in DOMAIN v : v[i] = 0)

\* The scaled histories a fitted instance with this lookback_window holds:
\* fit accepted at least lookback_window + 1 samples.
ScaledHistories(lookback) ==
    {v \in UNION {[1..n -> ScaledValues] : n \in (lookback + 1)..MaxLen} : IsScaled(v)}

NoRoll ==
    [scaled |-> <<>>, lookback |-> 0, periods |-> 0, applied |-> FALSE,
     stored |-> <<>>, ret |-> Rolled(<<>>, <<>>, <<>>, "")]

\* forecast(periods) on the fitted instance; the network answers with any
\* values. Nothing assigns self._scaled_prices.
ApplyRoll ==
    /\ ~roll.applied
    /\ \E preds \in [1..roll.periods -> ScaledPreds] :
          roll' = [roll EXCEPT !.applied = TRUE,
                               !.stored = roll.scaled,
                               !.ret = RollForward(roll.scaled, roll.lookback, preds)]

\* ------------------------------------------------------------ specifications

InitStore ==
    /\ assets = {}
    /\ prices = EmptyBag
    /\ nextAssetId = 1
    /\ sync = [c \in Callers |-> IdleFrame]
    /\ nSyncs = 0
    /\ merged = <<>>
    /\ prev = NoCall

InitModels ==
    /\ model = NoModel
    /\ out = Called("", "", 0, NoResult)
    /\ hist = NoFits

InitRequests == req = [r \in Callers |-> IdleRequest]

InitPools ==
    /\ pools = [e \in Executors |-> IdlePool]
    /\ calls = [c \in Requests |-> IdleCall]

InitShare ==
    /\ units = [w \in Workers |-> IdleUnit]
    /\ globals = Unseeded

InitAux == mapped = NoMapping /\ label = NoLabel /\ InitPools /\ InitShare /\ roll = NoRoll

AllLibs == [tensorflow |-> TRUE, prophet |-> TRUE]

Init ==
    /\ InitStore
    /\ InitModels
    /\ InitRequests
    /\ libs = AllLibs
    /\ check = NoCheck
    /\ InitAux

\* Sequential use of the coordinator: one caller, one call after the other.
SeqStart ==
    /\ \E s \in Symbols, k \in AssetTypes, i \in Intervals : SyncStart(1, s, k, i)
    /\ UNCHANGED <<modelVars, req, check, auxVars>>

SeqStep == SyncStep(1, Histories) /\ UNCHANGED <<modelVars, req, check, auxVars>>

Next == SeqStart \/ SeqStep

Spec == Init /\ [][Next]_vars

\* Concurrent use: the callers' steps interleave freely.
ConcStart ==
    /\ \E c \in Callers, s \in Symbols, k \in AssetTypes, i \in Intervals :
          SyncStart(c, s, k, i)
    /\ UNCHANGED <<modelVars, req, check, auxVars>>

ConcStep == (\E c \in Callers : SyncStep(c, Histories)) /\ UNCHANGED <<modelVars, req, check, auxVars>>

NextConc == ConcStart \/ ConcStep

SpecConc == Init /\ [][NextConc]_vars

\* The forecasting models used as a library: instances are constructed,
\* fitted and asked for forecasts in any order, in a process where either
\* optional package may be missing.
InitModel ==
    /\ InitStore
    /\ InitModels
    /\ InitRequests
    /\ libs \in [tensorflow : BOOLEAN, prophet : BOOLEAN]
    /\ check = NoCheck
    /\ InitAux

NewInstance ==
    /\ \E kind \in ModelKinds, span \in Spans, conf \in Confidences :
          Construct(kind, span, conf)
    /\ UNCHANGED <<syncVars, req, check, auxVars>>

FitCall == (\E series \in TrainingInputs : Fit(series)) /\ UNCHANGED <<syncVars, req, check, auxVars>>

ForecastCall == (\E periods \in Horizons : Forecast(periods)) /\ UNCHANGED <<syncVars, req, check, auxVars>>

NextModel == NewInstance \/ FitCall \/ ForecastCall

SpecModel == InitModel /\ [][NextModel]_vars

\* The interval minimum check as a function: any series length up to
\* MaxRows, either interval.
InitMinimums ==
    /\ InitStore
    /\ InitModels
    /\ InitRequests
    /\ libs = AllLibs
    /\ check \in [n : 0..MaxRows, interval : Intervals, symbol : Symbols,
                  applied : {FALSE}, ret : {Passed}]
    /\ InitAux

NextMinimums == ApplyValidate /\ UNCHANGED <<syncVars, modelVars, req, auxVars>>

SpecMinimums == InitMinimums /\ [][NextMinimums]_vars

\* The request handlers: requests arrive one after the other on either
\* route, with the schema's defaults where the handlers do not branch on
\* the value; the provider and the store answer as they please.
Arrive ==
    /\ \E route \in Routes, symbol \in RawSymbols, interval \in Intervals,
          kind \in ModelKinds :
          \E lookback \in (IF kind = "lstm" THEN Lookbacks ELSE {DefaultLookback}) :
             Receive(1, route, symbol, interval, "stock", kind, DefaultPeriods, lookback)
    /\ UNCHANGED <<modelVars, check, auxVars>>

Worker == SyncStep(1, UpstreamFor(req[1].interval)) /\ UNCHANGED <<modelVars, req, check, auxVars>>

Handler ==
    /\ \/ CheckExists(1)
       \/ AwaitSync(1)
       \/ FetchAsset(1)
       \/ FetchRows(1)
       \/ Validate(1)
       \/ Model(1)
    /\ UNCHANGED <<modelVars, check, auxVars>>

NextAnalyze == Arrive \/ Worker \/ Handler

InitAnalyze ==
    /\ InitStore
    /\ InitModels
    /\ InitRequests
    /\ libs \in {AllLibs, [tensorflow |-> FALSE, prophet |-> FALSE]}
    /\ check = NoCheck
    /\ InitAux

SpecAnalyze == InitAnalyze /\ [][NextAnalyze]_vars

\* Two /analyze requests in flight, one per caller: the handlers interleave at
\* their awaits and each sync runs on a worker thread of the pool.
\* The interval of the concurrent requests.
ConcIntervals == {"1mo"}

ArriveConc ==
    /\ \E r \in Callers, symbol \in RawSymbols, interval \in ConcIntervals :
          /\ req[r].sent = 0
          /\ Receive(r, "analyze", symbol, interval, "stock", "base", DefaultPeriods,
                  DefaultLookback)
    /\ UNCHANGED <<modelVars, check, auxVars>>

WorkerConc ==
    /\ \E c \in Callers : SyncStep(c, UpstreamFor(req[c].interval))
    /\ UNCHANGED <<modelVars, req, check, auxVars>>

HandlerConc ==
    /\ \E r \in Callers :
          \/ CheckExists(r)
          \/ AwaitSync(r)
          \/ FetchAsset(r)
          \/ FetchRows(r)
          \/ Validate(r)
          \/ Model(r)
    /\ UNCHANGED <<modelVars, check, auxVars>>

NextAnalyzeConc == ArriveConc \/ WorkerConc \/ HandlerConc

SpecAnalyzeConc == InitAnalyze /\ [][NextAnalyzeConc]_vars

\* The endpoints' answers to failures as a function: any two failures.
InitSignals ==
    /\ InitStore
    /\ InitModels
    /\ InitRequests
    /\ libs = AllLibs
    /\ check = NoCheck
    /\ mapped \in [a : Failures, b : Failures, answered : {FALSE}, sa : {0}, sb : {0}]
    /\ label = NoLabel
    /\ InitPools
    /\ InitShare
    /\ roll = NoRoll

NextSignals ==
    Answer /\ UNCHANGED <<syncVars, modelVars, req, check, label, poolVars, shareVars, roll>>

SpecSignals == InitSignals /\ [][NextSignals]_vars

\* The horizon label as a function: every horizon the schemas accept,
\* either interval.
InitLabel ==
    /\ InitStore
    /\ InitModels
    /\ InitRequests
    /\ libs = AllLibs
    /\ check = NoCheck
    /\ mapped = NoMapping
    /\ label \in [periods : 1..MaxRequestPeriods, interval : Intervals,
                  applied : {FALSE}, text : {<<>>}]
    /\ InitPools
    /\ InitShare
    /\ roll = NoRoll

NextLabel ==
    ApplyLabel /\ UNCHANGED <<syncVars, modelVars, req, check, mapped, poolVars, shareVars, roll>>

SpecLabel == InitLabel /\ [][NextLabel]_vars

\* The thread pools: requests arrive on any endpoint while others are in
\* flight; workers take and finish units in any interleaving.
otherVars == <<syncVars, modelVars, req, check, mapped, label, shareVars, roll>>

AcceptRequest ==
    /\ \E c \in Requests, endpoint \in Endpoints, exists \in BOOLEAN, passes \in BOOLEAN :
          Accept(c, endpoint, exists, passes)
    /\ UNCHANGED otherVars

TakeWork == (\E e \in Executors : WorkerTakes(e)) /\ UNCHANGED otherVars

FinishWork ==
    /\ \E e \in Executors, c \in Requests, raised \in BOOLEAN : WorkerDone(e, c, raised)
    /\ UNCHANGED otherVars

FinishThread == (\E c \in Requests, raised \in BOOLEAN : ThreadDone(c, raised)) /\ UNCHANGED otherVars

ResumeHandler == (\E c \in Requests, passes \in BOOLEAN : Resume(c, passes)) /\ UNCHANGED otherVars

NextPool == AcceptRequest \/ TakeWork \/ FinishWork \/ FinishThread \/ ResumeHandler

SpecPool == Init /\ [][NextPool]_vars

\* Every sync and every model run terminates, a free worker takes queued
\* work, and the event loop resumes a handler whose future is resolved.
FairPool ==
    /\ \A e \in Executors : WF_vars(WorkerTakes(e) /\ UNCHANGED otherVars)
    /\ \A c \in Requests :
          /\ WF_vars((\E e \in Executors, raised \in BOOLEAN : WorkerDone(e, c, raised))
                         /\ UNCHANGED otherVars)
          /\ WF_vars((\E raised \in BOOLEAN : ThreadDone(c, raised)) /\ UNCHANGED otherVars)
          /\ WF_vars((\E passes \in BOOLEAN : Resume(c, passes)) /\ UNCHANGED otherVars)

SpecPoolFair == Init /\ [][NextPool]_vars /\ FairPool

\* The model runs of two requests on the two workers of one executor.
shareOthers == <<syncVars, modelVars, req, check, mapped, label, poolVars, roll>>

ConstructOnWorker ==
    /\ \E w \in Workers, kind \in ModelKinds : RunModelConstruct(w, kind)
    /\ UNCHANGED shareOthers

FitOnWorker == (\E w \in Workers, ok \in BOOLEAN : RunModelFit(w, ok)) /\ UNCHANGED shareOthers

ForecastOnWorker == (\E w \in Workers : RunModelForecast(w)) /\ UNCHANGED shareOthers

NextShare == ConstructOnWorker \/ FitOnWorker \/ ForecastOnWorker

SpecShare == Init /\ [][NextShare]_vars

\* The iterative prediction as a function: any fitted LSTM instance, any
\* horizon.
InitRoll ==
    /\ InitStore
    /\ InitModels
    /\ InitRequests
    /\ libs = AllLibs
    /\ check = NoCheck
    /\ mapped = NoMapping
    /\ label = NoLabel
    /\ InitPools
    /\ InitShare
    /\ \E lookback \in 1..MaxSpan, periods \in Horizons :
          \E scaled \in ScaledHistories(lookback) :
             roll = [NoRoll EXCEPT !.scaled = scaled, !.stored = scaled,
                                   !.lookback = lookback, !.periods = periods]

NextRoll ==
    ApplyRoll /\ UNCHANGED <<syncVars, modelVars, req, check, mapped, label, poolVars, shareVars>>

SpecRoll == InitRoll /\ [][NextRoll]_vars

\* The legacy application: sync requests one after the other.
LegacyStart ==
    /\ \E s \in Symbols, k \in AssetTypes : LegacySyncStart(1, s, k)
    /\ UNCHANGED <<modelVars, req, check, auxVars>>

LegacyStep == LegacySyncStep(1, Histories) /\ UNCHANGED <<modelVars, req, check, auxVars>>

NextLegacy == LegacyStart \/ LegacyStep

SpecLegacy == Init /\ [][NextLegacy]_vars

\* ------------------------------------------------------------------ claims

\* No two stored observations share (asset_id, timestamp).
NoDuplicateRows ==
    /\ \A r \in BagToSet(prices) : CopiesIn(r, prices) = 1
    /\ \A r, q \in BagToSet(prices) :
          (r.asset_id = q.asset_id /\ r.timestamp = q.timestamp) => r = q

\* C1: sync is idempotent. A call that returns a count after the previous
\* call returned one for the same symbol and the same non-empty upstream
\* history returns that same count, the number of rows of the history, leaves
\* the cached observations as the previous call left them, and the cache
\* holds no two rows with one (asset, timestamp).
SyncIdempotent ==
    \A c \in Callers :
        (sync[c].pc = "done" /\ sync[c].err = "" /\ sync[c].repeat) =>
            /\ sync[c].ret = sync[c].prevRet
            /\ sync[c].ret = Cardinality(DOMAIN sync[c].df)
            /\ ~sync[c].changed
            /\ NoDuplicateRows

SyncIdempotentWitness ==
    \E c \in Callers :
        /\ sync[c].pc = "done" /\ sync[c].err = "" /\ sync[c].repeat
        /\ Cardinality(DOMAIN sync[c].df) = MaxTs

ConcurrentSyncsBothComplete ==
    /\ \A c \in Callers :
          (sync[c].pc = "done" /\ ~sync[c].fault /\ sync[c].err # "ValueError") =>
              (sync[c].err = "" /\ sync[c].wrote /\ sync[c].ret >= 1)
    /\ \A s \in Symbols : Cardinality(SelectAssetBySymbol(s)) <= 1
    /\ NoDuplicateRows

\* C4: every forecast a fitted model returns holds exactly `periods` point,
\* lower and upper entries, and lower[i] <= point[i] <= upper[i] at every
\* step i, for every confidence level and every model kind.
ForecastBandOrdered ==
    (out.op = "forecast" /\ out.err = "") =>
        LET r == out.result
        IN /\ Len(r.point_forecast) = out.periods
           /\ Len(r.lower_bound) = out.periods
           /\ Len(r.upper_bound) = out.periods
           /\ ~r.nan_bounds
           /\ \A i \in 1..out.periods :
                 /\ r.lower_bound[i] <= r.point_forecast[i]
                 /\ r.point_forecast[i] <= r.upper_bound[i]

\* C5: the interval minimum check raises 422 exactly when the series holds
\* fewer than 52 weekly or 24 monthly samples, so 51 and 23 fail, 52 and 24
\* pass; the exception reports the minimum and the actual count.
MinimumCheckExact ==
    check.applied =>
        LET minimum == IF check.interval = "1wk" THEN 52 ELSE 24
        IN /\ check.ret.status \in {0, 422}
           /\ check.ret.status = 422 <=> check.n < minimum
           /\ check.ret.status = 422 =>
                 (check.ret.minimum = minimum /\ check.ret.actual = check.n)

MinimumCheckExactWitness ==
    /\ check.applied
    /\ check.interval = "1wk"
    /\ check.n = 51
    /\ check.ret = HttpError(422, 52, 51)

\* C6: on every request path the interval minimum check comes before any
\* model constructor or fit call: a request whose fetched series is shorter
\* than the interval minimum constructs and fits no model and ends with 422,
\* also when a sync has just written the rows.
ValidationBeforeModel ==
    \A r \in Callers :
        LET f == req[r]
            short == f.loaded /\ Len(f.prices.v) < (IF f.interval = "1wk" THEN 52 ELSE 24)
        IN /\ \A k \in DOMAIN f.trace :
                 f.trace[k] \in {"construct", "fit"} =>
                     \E j \in 1..(k - 1) : f.trace[j] = "validate"
           /\ short =>
                 /\ f.pc \in {"validate", "done"}
                 /\ \A k \in DOMAIN f.trace : f.trace[k] \notin {"construct", "fit", "forecast"}
                 /\ f.pc = "done" => f.status = 422

ValidationBeforeModelWitness ==
    /\ req[1].pc = "done"
    /\ req[1].status = 422
    /\ req[1].interval = "1wk"
    /\ req[1].sync = SyncSummary(TRUE, 51)
    /\ Len(req[1].prices.v) = 51
    /\ req[1].trace = <<"check", "sync", "fetch", "validate">>

\* The steps of a whole request, in the order the handler takes them.
ExpectedSteps(f) ==
    (IF f.route = "analyze" THEN <<"check">> ELSE <<>>)
        \o (IF f.syncs > 0 THEN <<"sync">> ELSE <<>>)
        \o <<"fetch", "validate", "construct", "fit", "forecast">>

IsPrefix(a, b) == Len(a) <= Len(b) /\ a = SubSeq(b, 1, Len(a))

\* The statuses a request may end with when the step `step` fails.
FailureStatuses(step) ==
    CASE step = "check" -> {503}
      [] step = "sync" -> {404, 503, 500}
      [] step = "fetch" -> {404, 503}
      [] step = "validate" -> {422}
      [] step = "construct" -> {503}
      [] step = "fit" -> {422, 500, 503}
      [] OTHER -> {}

\* C7: the steps of one request are taken in the order existence check,
\* sync (only if the asset is absent), price fetch, minimum validation,
\* model fit, forecast; a step begins only when its predecessor is complete;
\* a failing step ends the request with its error, and nothing of the
\* request runs after that.
StepsInOrder ==
    /\ [](\A r \in Callers :
             LET f == req[r]
             IN /\ IsPrefix(f.trace, ExpectedSteps(f))
                /\ f.syncs > 0 <=>
                      (f.route = "analyze" /\ ~f.symbol_exists /\ Len(f.trace) >= 2)
                /\ (f.syncs > 0 /\ Len(f.trace) >= 3) =>
                      (sync[r].pc = "done" /\ sync[r].err = "")
                /\ f.pc = "done" =>
                      IF f.status = 200
                      THEN f.trace = ExpectedSteps(f)
                      ELSE f.status \in FailureStatuses(f.trace[Len(f.trace)]))
    /\ [][\A r \in Callers :
             (req[r].pc = "done" /\ req'[r].sent = req[r].sent) =>
                 (req'[r] = req[r] /\ sync'[r] = sync[r])]_vars

StepsInOrderWitness ==
    /\ req[1].pc = "done"
    /\ req[1].status = 422
    /\ req[1].trace = <<"check", "sync", "fetch", "validate", "construct", "fit">>

\* A symbol is trimmed and upper-case.
IsNormalised(symbol) ==
    /\ symbol # <<>> => (symbol[1] \notin Whitespace /\ symbol[Len(symbol)] \notin Whitespace)
    /\ \A k \in DOMAIN symbol : \A j \in DOMAIN LowerCase : symbol[k] # LowerCase[j]

\* C8: an analyze request calls the coordinator's sync once when its
\* existence check finds no asset row for the trimmed, upper-cased symbol
\* and never when it finds one; the response reports performed = true with
\* the count the coordinator returned, or performed = false with 0 rows.
SyncOnlyWhenAbsent ==
    \A r \in Callers :
        LET f == req[r]
            checked == f.route = "analyze" /\ Len(f.trace) >= 1
                          /\ ~(f.pc = "done" /\ f.trace = <<"check">>)
        IN /\ IsNormalised(f.symbol)
           /\ f.syncs <= 1
           /\ f.route = "forecast" => f.syncs = 0
           /\ checked => (f.syncs = 1 <=> ~f.symbol_exists)
           /\ (checked /\ f.syncs = 0) => SelectAssetBySymbol(f.symbol) # {}
           /\ f.syncs = 1 => sync[r].symbol = f.symbol
           /\ (f.route = "analyze" /\ f.status = 200) =>
                 IF f.syncs = 1
                 THEN /\ sync[r].ret = Cardinality(DOMAIN sync[r].df)
                      /\ f.sync = SyncSummary(TRUE, sync[r].ret)
                 ELSE f.sync = SyncSummary(FALSE, 0)

SyncOnlyWhenAbsentWitness ==
    /\ req[1].sent = 2
    /\ req[1].route = "analyze"
    /\ req[1].status = 200
    /\ req[1].symbol_exists
    /\ req[1].sync = SyncSummary(FALSE, 0)
    /\ nSyncs = 1
    /\ sync[1] = IdleFrame

\* C9: forecast on an instance never fitted, or on one with a failed fit
\* call, raises the not-fitted ValueError and returns no result; a result
\* comes only from an instance a fit call has fitted.
ForecastOnlyWhenFitted ==
    out.op = "forecast" =>
        /\ (hist.fits = 0 \/ hist.failed) => (out.err = "ValueError" /\ out.result = NoResult)
        /\ out.err = "" => hist.fitted

\* C10: sync tells its two failures apart: an empty provider history
\* raises ValueError, a failure to resolve or create the asset row raises
\* RuntimeError, before the provider is called and with no row written;
\* analyze answers the first with 404 and the second with 503, never the
\* other way round.
SyncFailuresDistinguished ==
    \A r \in Callers :
        LET c == sync[r]
            f == req[r]
        IN /\ c.err = "RuntimeError" => (~c.fetched /\ ~c.wrote /\ c.df = NoHistory)
           /\ c.err = "ValueError" => (c.fetched /\ ~c.wrote /\ c.df = NoHistory /\ ~c.fault)
           /\ (c.pc = "done" /\ ~c.fetched) => (c.err = "RuntimeError" /\ c.asset_id = 0)
           /\ (c.pc = "done" /\ c.fetched /\ c.df = NoHistory) => c.err = "ValueError"
           /\ (f.pc = "done" /\ f.syncs = 1 /\ f.trace = <<"check", "sync">>) =>
                 /\ c.err # ""
                 /\ c.err = "ValueError" <=> f.status = 404
                 /\ c.err = "RuntimeError" <=> f.status = 503

SyncFailuresDistinguishedWitness ==
    /\ req[1].pc = "done"
    /\ req[1].trace = <<"check", "sync">>
    /\ req[1].status = 503
    /\ sync[1].err = "RuntimeError"
    /\ ~sync[1].fetched
    /\ prices = EmptyBag

\* The kind of the error taxonomy a failure belongs to.
KindOf(f) ==
    CASE f.step = "validate" -> "InsufficientData"
      [] f.exc = "NoRows" -> "NotFound"
      [] f.step \in {"check", "fetch"} -> "StoreUnavailable"
      [] f.step = "sync" /\ f.exc = "ValueError" -> "NotFound"
      [] f.step = "sync" /\ f.exc = "RuntimeError" -> "StoreUnavailable"
      [] f.step = "model" /\ f.exc = "ImportError" -> "UnsupportedCapability"
      [] f.step = "model" /\ f.exc = "ValueError" -> "InsufficientData"
      [] OTHER -> "InternalError"

\* C11: every kind of the error taxonomy has a status code of its own: two
\* failures are answered with the same status exactly when they are of the
\* same kind, whichever of the endpoints analyze, forecast and sync answers.
SignalsDistinctAndStable ==
    mapped.answered =>
        (KindOf(mapped.a) = KindOf(mapped.b) <=> mapped.sa = mapped.sb)

\* C12: for the baseline and the LSTM model the width of the band,
\* upper[i] - lower[i], never shrinks from one step to the next, for every
\* fitted model, confidence level and horizon.
WidthNonDecreasing ==
    (out.op = "forecast" /\ out.err = "" /\ model.kind \in {"base", "lstm"}) =>
        LET r == out.result
        IN \A i \in 1..(out.periods - 1) :
              /\ ~r.nan_bounds
              /\ r.upper_bound[i] - r.lower_bound[i]
                     <= r.upper_bound[i + 1] - r.lower_bound[i + 1]

\* C13: forecast(periods) returns exactly `periods` timestamps, the i-th
\* being the last training timestamp plus i times the sampling step, the
\* median of the differences of consecutive training timestamps in whole
\* days and at least 1; so they are later than the training data, strictly
\* increasing and evenly spaced.
ForecastDatesSpaced ==
    (out.op = "forecast" /\ out.err = "") =>
        LET ts == model.prices.ts
            step == InferFreqDays(ts)
            dates == out.result.dates
        IN /\ Len(dates) = out.periods
           /\ step >= 1
           /\ \A i \in 1..out.periods : dates[i] = ts[Len(ts)] + i * step
           /\ \A i \in 1..out.periods : dates[i] > ts[Len(ts)]
           /\ \A i \in 1..(out.periods - 1) : dates[i + 1] - dates[i] = step

\* C14: the baseline model's point forecast is flat: at every requested
\* step it is the last value of the exponentially weighted mean fit
\* recorded for the training series (rounded to 4 decimals, as every output
\* value is), for every horizon.
PointForecastFlat ==
    (out.op = "forecast" /\ out.err = "" /\ model.kind = "base") =>
        LET v == model.prices.v
            p == out.result.point_forecast
        IN /\ Len(p) = out.periods
           /\ model.last_ema = Ewm(v, model.span, Len(v))
           /\ \A i \in 1..out.periods : p[i] = Round4(model.last_ema)
           /\ \A i, j \in 1..out.periods : p[i] = p[j]

PointForecastFlatWitness ==
    /\ out.op = "forecast" /\ out.err = ""
    /\ model.kind = "base" /\ model.span = MaxSpan
    /\ out.periods = MaxPeriods
    /\ Len(model.prices.v) = MaxLen
    /\ model.last_ema # model.prices.v[MaxLen]
    /\ out.result.point_forecast = [i \in 1..MaxPeriods |-> Round4(model.last_ema)]

Abs(x) == IF x >= 0 THEN x ELSE -x

StrictlyIncreasing(ts) == \A i \in 1..(Len(ts) - 1) : ts[i] < ts[i + 1]

\* C17: fit of every model rejects, before it sets any fitted state, a
\* series that has no timestamp index, is not strictly increasing by
\* timestamp, holds a missing value or is shorter than the model's minimum
\* (baseline: span, LSTM: lookback_window + 1, Prophet: 10), and accepts a
\* sound series of exactly the minimum length.
FitValidatesInput ==
    (out.op = "fit" /\ (model.kind = "prophet" => libs.prophet)) =>
        LET s == out.input
            minimum == CASE model.kind = "base" -> model.span
                         [] model.kind = "lstm" -> model.span + 1
                         [] model.kind = "prophet" -> 10
            defective == \/ ~s.datetime_index
                         \/ ~StrictlyIncreasing(s.ts)
                         \/ s.nulls # {}
                         \/ Len(s.v) < minimum
            rejected == out.err \in {"TypeError", "ValueError"}
        IN /\ defective =>
                 /\ rejected
                 /\ hist.fits = 1 => model = NewModel(model.kind, model.span, model.conf)
           /\ (~defective /\ Len(s.v) = minimum) => ~rejected

\* C18: LSTMForecastor.fit never trains on an empty training partition:
\* whenever no window can be built from the series, or the chronological
\* split leaves no sequence for training, fit raises ValueError and the
\* network is neither built nor trained.
NeverTrainsOnNothing ==
    (out.op = "fit" /\ model.kind = "lstm" /\ out.input.datetime_index) =>
        LET nX == SequenceCount(Len(out.input.v), model.span)
        IN TrainSplit(nX) = 0 =>
              /\ out.err = "ValueError"
              /\ hist.fits = 1 => ~model.has_model

\* The units of sync or model work that are executing.
Executing == {c \in Requests : calls[c].at = "running"}

\* C19: sync and model work runs on one shared pool of 2 workers: at any
\* moment at most 2 units are executing across all requests in flight, each
\* of them on a worker of that pool, and a further unit waits in its queue.
OneSharedPoolOfTwo ==
    /\ Cardinality(Executing) <= 2
    /\ \A c \in Executing : c \in pools["analyze"].running

\* C20: every request eventually gets its response, whatever the number of
\* requests in flight: every unit of work handed to a pool is taken by a
\* worker, runs to its end, and its result or error reaches the handler that
\* awaits it.
EveryRequestAnswered ==
    \A c \in Requests : (calls[c].pc # "idle") ~> (calls[c].pc = "done")

EveryRequestAnsweredWitness ==
    \E c \in Requests :
        /\ calls[c].pc = "done"
        /\ calls[c].endpoint = "analyze"
        /\ calls[c].unit = "model"
        /\ calls[c].waited
        /\ calls[c].response = "ok"
        /\ \A d \in Requests : calls[d].endpoint = "analyze"

\* C21: a sync never deletes an asset record and changes nothing of one but
\* last_updated: id, symbol, asset_type, name, currency and created_at stay,
\* also when the call passes another category; the record whose last_updated
\* changes is the one of the symbol the call is for, at the call's stamp.
OnlyLastUpdatedChanges ==
    [][\A a \in assets :
          \E b \in assets' :
             /\ b.id = a.id
             /\ a = [b EXCEPT !.last_updated = a.last_updated]
             /\ b # a => \E c \in Callers :
                            /\ sync[c].pc = "stamp"
                            /\ sync'[c].pc = "done"
                            /\ sync[c].asset_id = a.id
                            /\ sync[c].symbol = a.symbol]_vars

\* A sync that passed another category than the record's has returned.
OnlyLastUpdatedChangesWitness ==
    \E c \in Callers, a \in assets :
        /\ sync[c].pc = "done"
        /\ sync[c].err = ""
        /\ sync[c].asset_id = a.id
        /\ sync[c].asset_type # a.asset_type
        /\ a.last_updated > a.created_at
        /\ Cardinality(assets) = 1

\* The model run on worker w is under way.
InFlight(w) == units[w].pc \in {"constructed", "fitted"}

\* C22: every request builds its own model and no state is shared between
\* model instances: two model runs under way at once on the pool hold
\* different instances, and no state one of them has read or written is
\* read or written by the other.
InstancesShareNothing ==
    \A u \in Workers, v \in Workers :
        (u # v /\ InFlight(u) /\ InFlight(v)) =>
            /\ units[u].inst # units[v].inst
            /\ units[u].accessed \cap units[v].accessed = {}

\* C23: a model instance is single-use: once a fit call on it has returned
\* or raised, a further fit call changes nothing of the instance, neither
\* its lifecycle state nor a value forecast reads; and a forecast call
\* leaves the instance as it was.
FitIsSingleUse ==
    [][/\ (hist.fits >= 1 /\ hist'.fits = hist.fits + 1) => model' = model
       /\ (out' # out /\ out'.op = "forecast") => model' = model]_vars

\* The call of caller c has raised in this step.
RaisedNow(c, kind) == sync[c].err = "" /\ sync'[c].err = kind

\* C24: within one sync the asset is resolved before the fetch, the fetch
\* comes before the upsert and the upsert before the stamp: last_updated
\* changes only in the last step of a call whose upsert has written all its
\* records, and that call returns; a call that ends with NotFound (empty
\* history) or with a failed upsert changes neither table in that step, and
\* a NotFound call has written no observation.
StampOnlyAfterUpsert ==
    [][/\ \A c \in Callers :
            /\ sync'[c].fetched => sync'[c].asset_id # 0
            /\ sync'[c].wrote => (sync'[c].fetched /\ DOMAIN sync'[c].df # {})
            /\ sync'[c].pc = "stamp" => sync'[c].wrote
            /\ sync'[c].err = "ValueError" => ~sync'[c].wrote
            /\ (RaisedNow(c, "ValueError") \/ (RaisedNow(c, "Exception") /\ ~sync[c].wrote))
                  => (assets' = assets /\ prices' = prices)
       /\ \A a \in assets, b \in assets' :
            (b.id = a.id /\ b.last_updated # a.last_updated) =>
                \E c \in Callers :
                    /\ sync[c].pc = "stamp"
                    /\ sync[c].wrote
                    /\ sync[c].asset_id = a.id
                    /\ Transform(a.id, sync[c].df) \subseteq BagToSet(prices)
                    /\ sync'[c].pc = "done"
                    /\ sync'[c].err = ""
                    /\ sync'[c].ret = Cardinality(DOMAIN sync[c].df)]_vars

\* A sync stamped the asset, and a later sync of it whose upsert failed has
\* left the stamp as it was.
StampOnlyAfterUpsertWitness ==
    \E a \in assets :
        /\ sync[1].pc = "done"
        /\ sync[1].err = "Exception"
        /\ sync[1].fetched
        /\ ~sync[1].wrote
        /\ sync[1].asset_id = a.id
        /\ a.last_updated > 0
        /\ a.last_updated < Now

\* C25: the LSTM forecast predicts iteratively: exactly `periods`
\* predictions are produced; the window of step k holds exactly
\* lookback_window values, the last lookback_window - (k - 1) scaled
\* observations followed by the k - 1 earlier predictions in order, and the
\* last lookback_window predictions once k > lookback_window; the stored
\* scaled history is as it was.
WindowRollsForward ==
    roll.applied =>
        LET n == Len(roll.scaled)
            L == roll.lookback
            raw == roll.ret.raw
        IN /\ roll.ret.err = ""
           /\ Len(raw) = roll.periods
           /\ Len(roll.ret.windows) = roll.periods
           /\ \A k \in 1..roll.periods :
                 /\ Len(roll.ret.windows[k]) = L
                 /\ roll.ret.windows[k] =
                       IF k <= L
                       THEN SubSeq(roll.scaled, n - (L - (k - 1)) + 1, n) \o SubSeq(raw, 1, k - 1)
                       ELSE SubSeq(raw, k - L, k - 1)
           /\ roll.stored = roll.scaled

\* A forecast whose last window holds predictions only.
WindowRollsForwardWitness ==
    /\ roll.applied
    /\ roll.lookback = 1
    /\ roll.periods = 2
    /\ roll.ret.windows = <<<<10>>, <<3>>>>
    /\ roll.ret.raw = <<3, 12>>

\* The string a sequence of pieces spells.
RECURSIVE Join(_)
Join(pieces) == IF pieces = <<>> THEN "" ELSE Head(pieces) \o Join(Tail(pieces))

\* The label of `periods` periods at `interval`, once applied, reads `text`.
Reads(periods, interval, text) ==
    (label.applied /\ label.periods = periods /\ label.interval = interval)
        => Join(label.text) = text

EndsAt(c, pc) == sync[c].pc = pc /\ sync'[c].pc = "done"

\* C27: in the silent coordinator a sync never raises and returns nothing:
\* when the asset cannot be resolved it returns without a fetch and without
\* a write, when the upstream history is empty it returns without a write,
\* and a failed upsert is swallowed and writes nothing; in each case POST
\* /sync/{symbol} of the legacy application reports success.
SilentSyncNeverRaises ==
    [][\A c \in Callers :
          /\ sync'[c].err = ""
          /\ sync'[c].pc = "done" =>
                (sync'[c].ret = -1 /\ LegacySyncResponse(sync'[c]) = 200)
          /\ (EndsAt(c, "select") \/ EndsAt(c, "insert")) =>
                /\ sync'[c].fault /\ sync'[c].asset_id = 0
                /\ ~sync'[c].fetched /\ ~sync'[c].wrote
                /\ assets' = assets /\ prices' = prices
          /\ EndsAt(c, "fetch") =>
                /\ sync'[c].df = NoHistory /\ ~sync'[c].wrote
                /\ assets' = assets /\ prices' = prices
          /\ (EndsAt(c, "upsert") \/ (EndsAt(c, "stamp") /\ sync'[c].fault)) =>
                (assets' = assets /\ prices' = prices)]_vars

\* A sync whose upsert failed has returned, and the endpoint answers 200 for
\* an asset with no observation.
SilentSyncNeverRaisesWitness ==
    \E a \in assets :
        /\ sync[1].pc = "done"
        /\ sync[1].fault
        /\ sync[1].fetched
        /\ ~sync[1].wrote
        /\ sync[1].asset_id = a.id
        /\ a.currency = "default"
        /\ RowsOf(a.id) = {}
        /\ LegacySyncResponse(sync[1]) = 200

\* The asset record of `symbol` is there and has no observation.
Orphaned(symbol) == \E a \in assets : a.symbol = symbol /\ RowsOf(a.id) = {}

\* C28: a sync that ends with NotFound leaves the asset record it created in
\* the store, with no observation; an analyze request that arrives for a
\* symbol in that state finds the record, starts no sync, and ends with 404
\* at the price fetch whenever the store answers (503 when it does not).
OrphanNeverResynced ==
    [][/\ \A c \in Callers :
            RaisedNow(c, "ValueError") =>
                /\ assets' = assets
                /\ prices' = prices
                /\ \E a \in assets : a.id = sync[c].asset_id /\ a.symbol = sync[c].symbol
                /\ req[c].syncs = 1 => Orphaned(sync[c].symbol)
       /\ \A r \in Callers :
            (req[r].route = "analyze" /\ req[r].pc = "check" /\ Orphaned(req[r].symbol)) =>
                /\ sync' = sync
                /\ req'[r].syncs = 0
                /\ req'[r].pc = "fetch_asset" \/ req'[r].status = 503
       /\ \A r \in Callers :
            (req[r].route = "analyze" /\ req[r].symbol_exists /\ req[r].pc # "done"
               /\ req'[r].pc = "done" /\ Orphaned(req[r].symbol)) =>
                /\ req'[r].syncs = 0
                /\ ~req'[r].sync.performed
                /\ \/ req'[r].status = 404 /\ req'[r].trace = <<"check", "fetch">>
                   \/ req'[r].status = 503]_vars

\* The second request for a symbol whose sync ended with NotFound: the record
\* was found, no sync ran, and the answer is 404 from the price fetch.
OrphanNeverResyncedWitness ==
    /\ req[1].sent = 2
    /\ req[1].route = "analyze"
    /\ req[1].pc = "done"
    /\ req[1].symbol_exists
    /\ req[1].syncs = 0
    /\ req[1].status = 404
    /\ req[1].trace = <<"check", "fetch">>
    /\ nSyncs = 1
    /\ Orphaned(req[1].symbol)
    /\ Cardinality(assets) = 1

\* Another caller's sync of `symbol` has started and not yet returned.
SyncInFlight(r, symbol) ==
    \E c \in Callers \ {r} : sync[c].symbol = symbol /\ sync[c].pc \notin {"idle", "done"}

\* Another caller's sync of `symbol` returned at least `n` rows.
SyncedAtLeast(r, symbol, n) ==
    \E c \in Callers \ {r} :
        /\ sync[c].symbol = symbol
        /\ sync[c].pc = "done"
        /\ sync[c].err = ""
        /\ sync[c].ret >= n

\* C29: when the existence check of an analyze request finds the asset record
\* and skips sync, the asset's history is already in historical_prices, and a
\* request that skipped sync for a symbol whose sync returned enough rows for
\* the requested interval never ends with 404 or 422.
NeverHalfPopulated ==
    [][\A r \in Callers :
          /\ (req[r].pc = "check" /\ req'[r].pc = "fetch_asset") =>
                \E a \in assets : a.symbol = req[r].symbol /\ RowsOf(a.id) # {}
          /\ (/\ req[r].pc # "done"
              /\ req'[r].pc = "done"
              /\ req[r].route = "analyze"
              /\ req[r].symbol_exists
              /\ req[r].syncs = 0
              /\ SyncInFlight(r, req[r].symbol)
                   \/ SyncedAtLeast(r, req[r].symbol, MinSamples(req[r].interval)))
             => req'[r].status \notin {404, 422}]_vars

\* The timestamps of the series a request has loaded.
LoadedTimestamps(f) == {f.prices.ts[k] : k \in DOMAIN f.prices.ts}

====
